---------------------------- MODULE Spec2Model ----------------------------
(***************************************************************************)
(* A model of screp, the StarCraft: Brood War replay parser.               *)
(*                                                                         *)
(* The container decoder (repdecoder), the section loop of parse(), the    *)
(* frame-block loop of parseCommands(), the sub-section loop of            *)
(* parseMapData() and Replay.Compute() are state machines over the bytes   *)
(* of a replay; the byte-level conversions are operators computed the way  *)
(* the Go code computes them.  Byte slices are sequences of 0..255 and     *)
(* offsets are 0-based as in the source (At, Slice).                       *)
(***************************************************************************)
EXTENDS Integers, Sequences, FiniteSets, TLC

VARIABLES
    repData,         \* the bytes handed to ParseConfig
    cfg,             \* Config: [Commands, MapData]
    pc,              \* position of the program
    rf,              \* decoder.rf, the detected RepFormat
    sectionsCounter, \* decoder.sectionsCounter
    rpos,            \* read position of decoder.r in repData
    sectionCounter,  \* the loop variable of parse()
    s,               \* the Section being processed: its ID, or NoSection
    size,            \* parse(): the size handed to dec.Section
    data,            \* parse(): the data of the section being processed
    r,               \* the Replay under construction
    ret,             \* what ParseConfig returned: [nil, err]
    panicked,        \* a panic was raised inside parse()
    crashed,         \* a panic left the program
    secLog,          \* one record per dec.Section call made so far
    srPos,           \* sliceReader.pos of the loop of parseCommands / parseMapData
    frame,           \* parseCommands: the frame of the current frame block
    cmdBlockEndPos,  \* parseCommands: where the current frame block ends
    hist,            \* what the loops did so far, for the properties below
    esi,             \* legacyDecoder.esi.data of the decoder of this caller
    zeroedEsiData,   \* the array zeroedEsiData of package repdecoder
    other,           \* a second caller of the package, while it is not running
    call             \* a call of a function of the library: [fn, arg, result]

decVars == <<rf, sectionsCounter, rpos>>
loopVars == <<sectionCounter, s, size, data>>
srVars == <<srPos, frame, cmdBlockEndPos>>
retVars == <<ret, panicked, crashed>>
esiVars == <<esi, zeroedEsiData>>
callVars == <<other, call>>

vars == <<repData, cfg, pc, rf, sectionsCounter, rpos, sectionCounter, s, size,
          data, r, ret, panicked, crashed, secLog, srPos, frame, cmdBlockEndPos, hist,
          esi, zeroedEsiData, other, call>>

---------------------------------------------------------------------------
(* Bytes, integers of fixed width                                          *)

Byte == 0..255

At(b, i) == b[i + 1]

Slice(b, lo, hi) == SubSeq(b, lo + 1, hi)

\* A 32-bit word is held as its two's-complement value, -2^31 .. 2^31-1 (the
\* arithmetic of the checker is 32 bits wide); a uint32 and the int32 it
\* converts to are the same bits, so the conversions int32(u) and uint32(i)
\* leave the word as it is and the unsigned reading is in LtU32, LeU32, AddU32.
Uint32(b, off) ==
    LET top == At(b, off + 3) IN
    At(b, off) + 256 * At(b, off + 1) + 65536 * At(b, off + 2)
        + 16777216 * (IF top >= 128 THEN top - 256 ELSE top)

Uint16(b, off) == At(b, off) + 256 * At(b, off + 1)

\* a < b, both read as uint32
LtU32(a, b) == IF (a < 0) = (b < 0) THEN a < b ELSE b < 0

LeU32(a, b) == a = b \/ LtU32(a, b)

\* a + b in uint32 arithmetic (wraps around at 2^32)
AddU32(a, b) ==
    LET lo == (a % 65536) + (b % 65536)
        hi == ((a \div 65536) + (b \div 65536) + (lo \div 65536)) % 65536
    IN  (IF hi >= 32768 THEN hi - 65536 ELSE hi) * 65536 + (lo % 65536)

PutUint32(v) ==
    <<v % 256, (v \div 256) % 256, (v \div 65536) % 256, (v \div 16777216) % 256>>

min(a, b) == IF a < b THEN a ELSE b

Zeros(n) == [i \in 1..n |-> 0]

---------------------------------------------------------------------------
(* Errors: the nil error is NoErr                                           *)

NoErr == "nil"
EOF == "EOF"
ErrUnexpectedEOF == "unexpected EOF"
ErrMismatchedSection == "mismatched section"
ErrNoMoreSections == "no more sections"
ErrNotReplayFile == "not a replay file"
ErrParsing == "parsing"
ErrZlib == "zlib"

---------------------------------------------------------------------------
(* The reader of the decoder: io.ReadFull on what is left of repData       *)

ReadFull(b, pos, n) ==
    LET left == Len(b) - pos IN
    IF n = 0 THEN [err |-> NoErr, pos |-> pos, bytes |-> <<>>]
    ELSE IF left = 0 THEN [err |-> EOF, pos |-> pos, bytes |-> <<>>]
    ELSE IF left < n THEN [err |-> ErrUnexpectedEOF, pos |-> Len(b), bytes |-> Slice(b, pos, Len(b))]
    ELSE [err |-> NoErr, pos |-> pos + n, bytes |-> Slice(b, pos, pos + n)]

readInt32(b, pos) ==
    LET rd == ReadFull(b, pos, 4) IN
    [err |-> rd.err, pos |-> rd.pos,
     n |-> IF rd.err = NoErr THEN Uint32(rd.bytes, 0) ELSE 0]

---------------------------------------------------------------------------
(* Replay formats                                                          *)

RepFormatUnknown == "Unknown"
RepFormatLegacy == "Legacy"
RepFormatModern == "Modern"
RepFormatModern121 == "Modern121"

detectRepFormat(fileHeader) ==
    IF Len(fileHeader) < 30 THEN RepFormatUnknown
    ELSE IF At(fileHeader, 12) = 115 THEN RepFormatModern121
    ELSE IF At(fileHeader, 28) # 120 THEN RepFormatLegacy
    ELSE RepFormatModern

New(b) ==
    IF Len(b) >= 30 THEN detectRepFormat(Slice(b, 0, 30)) ELSE RepFormatUnknown

\* newDecoder: the Decoder implementation chosen for a format
newDecoder(f) ==
    IF f \in {RepFormatModern, RepFormatModern121} THEN "modernDecoder" ELSE "legacyDecoder"

bufLen == 8192

\* esi.data and zeroedEsiData are arrays of 0x3134 bytes.  They are held as
\* the parts a later read can return: tables, whether repSection has copied
\* the code tables in (the same bytes every time), and window, the bytes of
\* esi.data[0x30..0x1030) from the first that has been written to 0x1030,
\* which a match that starts before the first byte of a chunk reads.  The
\* bytes from esi.data[0x1030] on are written by repChunk before it reads them.
\* The array that is zero everywhere:
ZeroEsi == [tables |-> FALSE, window |-> <<>>]

\* esi.data == nil
NilEsi == <<>>

---------------------------------------------------------------------------
(* The legacy decompressor (PKWARE explode), legacy.go                     *)

off507120 ==
    <<2, 4, 4, 5, 5, 5, 5, 6, 6, 6, 6, 6, 6, 6, 6, 6,
      6, 6, 6, 6, 6, 6, 7, 7, 7, 7, 7, 7, 7, 7, 7, 7,
      7, 7, 7, 7, 7, 7, 7, 7, 7, 7, 7, 7, 7, 7, 7, 7,
      8, 8, 8, 8, 8, 8, 8, 8, 8, 8, 8, 8, 8, 8, 8, 8>>

off507160 ==
    <<3, 13, 5, 25, 9, 17, 1, 62, 30, 46, 14, 54, 22, 38, 6, 58,
      26, 42, 10, 50, 18, 34, 66, 2, 124, 60, 92, 28, 108, 44, 76, 12,
      116, 52, 84, 20, 100, 36, 68, 4, 120, 56, 88, 24, 104, 40, 72, 8,
      240, 112, 176, 48, 208, 80, 144, 16, 224, 96, 160, 32, 192, 64, 128, 0>>

off5071A0 == <<0, 0, 0, 0, 0, 0, 0, 0, 1, 2, 3, 4, 5, 6, 7, 8>>

off5071B0 ==
    <<0, 0, 1, 0, 2, 0, 3, 0, 4, 0, 5, 0, 6, 0, 7, 0,
      8, 0, 10, 0, 14, 0, 22, 0, 38, 0, 70, 0, 134, 0, 6, 1>>

off5071D0 == <<3, 2, 3, 3, 4, 4, 4, 5, 5, 5, 5, 6, 6, 6, 7, 7>>

off5071E0 == <<5, 3, 1, 6, 10, 2, 12, 20, 4, 24, 8, 48, 16, 32, 64, 0>>

\* com1 fills a 256-entry table of esi.data: entry x gets n for every
\* x = str[n] + k * 2^bits[n] below 0x100; n runs downwards, so the smallest
\* n is the one that stays.  Entries never written stay 0.
com1(str, bits) ==
    [x \in 0..255 |->
        LET hit == {n \in 0..(Len(str) - 1) :
                        x >= At(str, n) /\ (x - At(str, n)) % (2^At(bits, n)) = 0}
        IN  IF hit = {} THEN 0 ELSE CHOOSE n \in hit : \A k \in hit : n <= k]

\* esi.data[0x2B34..]: the length codes, and esi.data[0x2A34..]: the distance codes
esi2B34 == com1(off5071E0, off5071D0)

esi2A34 == com1(off507160, off507120)

\* The state of one chunk decode: e.src the compressed chunk, e.p the next
\* byte of it to load (rep.m04 and esi.m1C together), e.m14 the bit buffer,
\* e.m18 its spare bits, e.m0C the dictionary bits, e.out the bytes produced
\* (the window esi.data[0x30..] and what esi2C has flushed), e.eof the
\* underflow reported by a common() that found the source exhausted.
common(e, count) ==
    IF e.m18 < count THEN
        IF e.p = Len(e.src) THEN [e EXCEPT !.m14 = e.m14 \div (2^e.m18), !.eof = TRUE]
        ELSE LET tmp == At(e.src, e.p) * 256 + (e.m14 \div (2^e.m18))
             IN  [e EXCEPT !.p = e.p + 1,
                           !.m14 = tmp \div (2^(count - e.m18)),
                           !.m18 = e.m18 + 8 - count,
                           !.eof = FALSE]
    ELSE [e EXCEPT !.m18 = e.m18 - count, !.m14 = e.m14 \div (2^count), !.eof = FALSE]

\* function1: the next literal (below 0x100), length code (0x100 + n),
\* the end marker 0x305, or 0x306 on underflow.  esi.m04 is 0 here (repSection
\* refuses the other coding), so the literal is the next 8 bits.
function1(e) ==
    LET e1 == common(e, 1) IN
    IF e.m14 % 2 = 1 THEN
        IF e1.eof THEN [e |-> e1, length |-> 774]
        ELSE
            LET result == esi2B34[e1.m14 % 256]
                e2 == common(e1, At(off5071D0, result))
                extra == At(off5071A0, result)
                x == e2.m14 % (2^extra)
                e3 == common(e2, extra)
            IN  IF e2.eof THEN [e |-> e2, length |-> 774]
                ELSE IF extra # 0 THEN
                    IF e3.eof /\ result + x # 270 THEN [e |-> e3, length |-> 774]
                    ELSE [e |-> e3,
                          length |-> At(off5071B0, 2 * result + 1) * 256
                                        + At(off5071B0, 2 * result) + x + 256]
                ELSE [e |-> e2, length |-> result + 256]
    ELSE
        IF e1.eof THEN [e |-> e1, length |-> 774]
        ELSE LET e2 == common(e1, 8) IN
             IF e2.eof THEN [e |-> e2, length |-> 774]
             ELSE [e |-> e2, length |-> e1.m14 % 256]

\* function2: how far back the match of the given length starts, 0 on underflow
function2(e, length) ==
    LET tmp == esi2A34[e.m14 % 256]
        e1 == common(e, At(off507120, tmp))
        bits == IF length # 2 THEN e.m0C ELSE 2
        e2 == common(e1, bits)
    IN  IF e1.eof THEN [e |-> e1, tmp |-> 0]
        ELSE IF e2.eof THEN [e |-> e2, tmp |-> 0]
        ELSE [e |-> e2, tmp |-> tmp * (2^bits) + (e1.m14 % (2^bits)) + 1]

\* The bytes of a match, copied as from a place apart: a byte that the match
\* itself is yet to write is read as 0
copyMatchApart(out, tmp, length) ==
    out \o [k \in 1..length |->
               IF Len(out) - tmp + k >= 1 /\ Len(out) - tmp + k <= Len(out)
               THEN out[Len(out) - tmp + k] ELSE 0]

\* The bytes of a match: each is the byte tmp places back, which may be one
\* the match itself has just written (the last tmp bytes repeat); before the
\* first byte the window is 0.
copyMatch(out, tmp, length) ==
    LET back(j) == IF Len(out) - tmp + j >= 1 THEN out[Len(out) - tmp + j] ELSE 0
    IN  out \o [k \in 1..length |-> back(((k - 1) % tmp) + 1)]

RECURSIVE repChunk(_)

\* repChunk after function2: f2.tmp is how far back the match starts
repChunkMatch(f1, f2) ==
    IF f2.tmp = 0 THEN [e |-> f2.e, length |-> 774]
    ELSE repChunk([f2.e EXCEPT !.out = copyMatch(f2.e.out, f2.tmp, f1.length - 254)])

\* repChunk after function1: f1.length is a literal, a match length or an end
repChunkStep(f1) ==
    IF f1.length >= 773 THEN [e |-> f1.e, length |-> f1.length]
    ELSE IF f1.length >= 256 THEN repChunkMatch(f1, function2(f1.e, f1.length - 254))
    ELSE repChunk([f1.e EXCEPT !.out = Append(f1.e.out, f1.length)])

repChunk(e) == repChunkStep(function1(e))

\* esi.data[0x30..0x1030) once repChunk has put out the bytes out: every
\* time 0x1000 bytes or more are pending, they are handed to esi2C and the
\* window is moved down by 0x1000
windowAfter(window, out) ==
    LET kept == Len(window) + Len(out) - (Len(out) % 4096)
    IN  IF Len(out) < 4096 THEN window
        ELSE SubSeq(window \o out, kept - 4095, kept)

\* What repSection leaves once repChunk has returned c: the return code 0
\* whatever c.length is, rep.m0C with the bytes esi2C handed out, and esi.data
repSectionDone(e, c) ==
    LET out == SubSeq(c.e.out, Len(e.window) + 1, Len(c.e.out))
    IN  [code |-> 0, m0C |-> Len(out), out |-> out,
         esi |-> [tables |-> TRUE, window |-> windowAfter(e.window, out)]]

\* repSection on a decoder whose esi.data is e: the return code, rep.m0C with
\* the bytes esi2C handed out, and esi.data.  repChunk begins at
\* esi.data[0x1030], after the bytes of e.window.
repSection(e, src) ==
    IF min(Len(src), 2048) <= 4 THEN [code |-> 3, m0C |-> 0, out |-> <<>>, esi |-> e]
    ELSE IF At(src, 1) < 4 \/ At(src, 1) > 6 THEN
        [code |-> 1, m0C |-> 0, out |-> <<>>, esi |-> e]
    ELSE IF At(src, 0) # 0 THEN [code |-> 2, m0C |-> 0, out |-> <<>>, esi |-> e]
    ELSE repSectionDone(e, repChunk([src |-> src, p |-> 3, m14 |-> At(src, 2), m18 |-> 0,
                                     m0C |-> At(src, 1), out |-> e.window, eof |-> FALSE]))


---------------------------------------------------------------------------
(* The zlib stream of a modern chunk (compress/zlib, called at              *)
(* modern.go Section).  NewReader checks the 2-byte header; the body is     *)
(* inflated for stored deflate blocks, the blocks the replays here hold;    *)
(* the trailer is the Adler-32 sum of the output, big-endian.               *)

\* zlib.NewReader: does the header pass (deflate, window <= 32K, check bits, no dictionary)
zlibHeaderOk(c) ==
    /\ Len(c) >= 2
    /\ At(c, 0) % 16 = 8
    /\ At(c, 0) \div 16 <= 7
    /\ (At(c, 0) * 256 + At(c, 1)) % 31 = 0
    /\ (At(c, 1) \div 32) % 2 = 0

\* The sum modulo 65521 of term(i) for i in lo..hi, by halves
RECURSIVE SumMod(_, _, _)
SumMod(term, lo, hi) ==
    IF lo > hi THEN 0
    ELSE IF lo = hi THEN term[lo] % 65521
    ELSE LET mid == (lo + hi) \div 2
         IN  (SumMod(term, lo, mid) + SumMod(term, mid + 1, hi)) % 65521

\* Adler-32 of the first n bytes of out: <<a, b>>, a = 1 + the sum of the
\* bytes, b = the sum of the values a takes byte after byte
adler32(out, n) ==
    <<(1 + SumMod([i \in 1..n |-> out[i]], 1, n)) % 65521,
      (n + SumMod([i \in 1..n |-> out[i] * ((n - i + 1) % 65521)], 1, n)) % 65521>>

\* io.Copy from the zlib reader: one final stored block (its 3 header bits,
\* LEN, NLEN, the bytes), then the checksum; anything else ends in an error
inflate(c) ==
    LET len == Uint16(c, 3)
        out == Slice(c, 7, 7 + len)
        sum == adler32(out, len)
        a == sum[1]
        b == sum[2]
    IN  IF /\ Len(c) >= 7
           /\ At(c, 2) % 8 = 1
           /\ len + Uint16(c, 5) = 65535
           /\ Len(c) >= 7 + len + 4
           /\ At(c, 7 + len) = b \div 256 /\ At(c, 8 + len) = b % 256
           /\ At(c, 9 + len) = a \div 256 /\ At(c, 10 + len) = a % 256
        THEN [err |-> NoErr, out |-> out]
        ELSE [err |-> ErrZlib, out |-> <<>>]

---------------------------------------------------------------------------
(* The decoders.  A Section call returns                                   *)
(*   data, sectionID, err : the results of the call,                       *)
(*   pos   : where the reader is left,                                     *)
(*   panic : the call raised a run-time panic,                             *)
(*   chunked, total : the chunk loop ran to its end, and the number of     *)
(*           bytes all chunks together put out.                            *)

SectionResult(d, id, e, p, pan, ch, tot) ==
    [data |-> d, sectionID |-> id, err |-> e, pos |-> p, panic |-> pan,
     chunked |-> ch, total |-> tot]

\* decoder.NewSection that reads the length before the 3rd section
NewSectionThird(f, sc, b, pos) ==
    IF f = RepFormatLegacy /\ sc = 5 THEN [err |-> ErrNoMoreSections, pos |-> pos]
    ELSE IF f = RepFormatModern121 /\ sc = 3 THEN
        LET rd == readInt32(b, pos) IN [err |-> rd.err, pos |-> rd.pos]
    ELSE [err |-> NoErr, pos |-> pos]

\* decoder.NewSection after the increment of sectionsCounter (sc)
NewSection(f, sc, b, pos) ==
    IF f = RepFormatLegacy /\ sc = 5 THEN [err |-> ErrNoMoreSections, pos |-> pos]
    ELSE IF f = RepFormatModern121 /\ sc = 2 THEN
        LET rd == readInt32(b, pos) IN [err |-> rd.err, pos |-> rd.pos]
    ELSE [err |-> NoErr, pos |-> pos]

\* decoder.sectionHeader for size # 0: the checksum, then the chunk count
sectionHeader(b, pos) ==
    LET cs == readInt32(b, pos)
        cnt == readInt32(b, cs.pos)
    IN  IF cs.err # NoErr THEN [err |-> cs.err, pos |-> cs.pos, count |-> 0]
        ELSE [err |-> cnt.err, pos |-> cnt.pos, count |-> cnt.n]

\* copy(dst[off:], src)
copyAt(dst, off, src) ==
    [i \in 1..Len(dst) |->
        IF i > off /\ i - off <= Len(src) THEN src[i - off] ELSE dst[i]]

\* What a Section call returns, with what it leaves in d.esi.data (e) and in
\* zeroedEsiData (z)
WithEsi(sr, e, z) ==
    [data |-> sr.data, sectionID |-> sr.sectionID, err |-> sr.err, pos |-> sr.pos,
     panic |-> sr.panic, chunked |-> sr.chunked, total |-> sr.total,
     esi |-> e, zeroed |-> z]

\* initEsi that exchanges the two arrays instead of copying zeroedEsiData
initEsiExchanged(e, z) ==
    IF e = NilEsi THEN [esi |-> ZeroEsi, zeroed |-> z]
    ELSE [esi |-> z, zeroed |-> e]

\* legacyDecoder.initEsi: d.esi.data (e) and zeroedEsiData (z) after the call
initEsi(e, z) ==
    IF e = NilEsi THEN [esi |-> ZeroEsi, zeroed |-> z]
    ELSE [esi |-> z, zeroed |-> z]

\* The chunk loop of legacyDecoder.Section.  c holds the loop's variables:
\* b, sz, count, n, length2, m1C, m20, resultOffset, result, total, and esi,
\* zeroed: d.esi.data and zeroedEsiData.
RECURSIVE legacyChunks(_, _)

\* ... after repSection: rep is its outcome for the chunk rd has read
legacyChunkRep(c, rd, rep) ==
    LET l2 == IF rep.code = 0 /\ rep.m0C <= bufLen THEN rep.m0C ELSE 0
    IN  IF l2 = 0 \/ l2 > c.sz THEN
            WithEsi(SectionResult(<<>>, 0, ErrMismatchedSection, rd.pos, FALSE, FALSE, c.total),
                    rep.esi, c.zeroed)
        ELSE
            legacyChunks([c EXCEPT !.n = c.n + 1, !.length2 = l2, !.esi = rep.esi,
                                   !.m1C = c.m1C + bufLen, !.m20 = c.m20 + l2,
                                   !.resultOffset = c.resultOffset + l2,
                                   !.result = copyAt(copyAt(c.result, c.resultOffset, rd.bytes),
                                                     c.resultOffset, rep.out),
                                   !.total = c.total + l2],
                         rd.pos)

\* ... after io.ReadFull into result[resultOffset:resultOffset+length]
legacyChunkData(c, length, rd) ==
    IF rd.err # NoErr THEN
        WithEsi(SectionResult(copyAt(c.result, c.resultOffset, rd.bytes), 0, rd.err, rd.pos,
                              FALSE, FALSE, c.total),
                c.esi, c.zeroed)
    ELSE IF length = min(c.sz - c.m1C, bufLen) THEN
        legacyChunks([c EXCEPT !.n = c.n + 1, !.m1C = c.m1C + bufLen,
                               !.m20 = c.m20 + c.length2,
                               !.result = copyAt(c.result, c.resultOffset, rd.bytes),
                               !.total = c.total + length],
                     rd.pos)
    ELSE legacyChunkRep(c, rd, repSection(c.esi, rd.bytes))

\* ... after readInt32 of the chunk's compressed length
legacyChunkLen(c, ln) ==
    IF ln.err # NoErr THEN
        WithEsi(SectionResult(<<>>, 0, ln.err, ln.pos, FALSE, FALSE, c.total), c.esi, c.zeroed)
    ELSE IF ln.n > c.sz - c.m20 THEN
        WithEsi(SectionResult(<<>>, 0, ErrMismatchedSection, ln.pos, FALSE, FALSE, c.total),
                c.esi, c.zeroed)
    ELSE IF ln.n < 0 \/ c.resultOffset + ln.n > c.sz THEN
        WithEsi(SectionResult(<<>>, 0, NoErr, ln.pos, TRUE, FALSE, c.total), c.esi, c.zeroed)
    ELSE legacyChunkData(c, ln.n, ReadFull(c.b, ln.pos, ln.n))

legacyChunks(c, pos) ==
    IF c.n >= c.count THEN
        WithEsi(SectionResult(c.result, 0, NoErr, pos, FALSE, TRUE, c.total), c.esi, c.zeroed)
    ELSE legacyChunkLen(c, readInt32(c.b, pos))

\* legacyDecoder.Section after sectionHeader: make([]byte, size), initEsi (init
\* is what it leaves), the chunk loop
legacySectionHeader(e, z, b, pos, sz, h, init) ==
    IF h.err # NoErr THEN WithEsi(SectionResult(<<>>, 0, h.err, h.pos, FALSE, FALSE, 0), e, z)
    ELSE IF sz < 0 THEN WithEsi(SectionResult(<<>>, 0, NoErr, h.pos, TRUE, FALSE, 0), e, z)
    ELSE legacyChunks([b |-> b, sz |-> sz, count |-> h.count, n |-> 0, length2 |-> 0,
                       m1C |-> 0, m20 |-> 0, resultOffset |-> 0, result |-> Zeros(sz),
                       total |-> 0, esi |-> init.esi, zeroed |-> init.zeroed],
                      h.pos)

\* legacyDecoder.Section of the decoder whose esi.data is e, zeroedEsiData being z
legacySection(e, z, b, pos, sz) ==
    IF sz = 0 THEN WithEsi(SectionResult(<<>>, 0, NoErr, pos, FALSE, FALSE, 0), e, z)
    ELSE legacySectionHeader(e, z, b, pos, sz, sectionHeader(b, pos), initEsi(e, z))

knownModernSectionIDSizeHints(id) ==
    CASE id = 1313426259 -> 5600
      [] id = 1398033740 -> 28
      [] id = 1481197122 -> 8
      [] id = 1380729667 -> 192
      [] id = 1195787079 -> 25
      [] OTHER -> 0

\* The chunk loop of modernDecoder.Section; zr tells whether the zlib reader
\* exists already (a header error on its creation leaves it nil, and the
\* deferred zr.Close() on it panics)
RECURSIVE modernChunks(_, _, _, _, _, _)
modernChunks(b, pos, id, count, zr, resBuf) ==
    IF count <= 0 THEN SectionResult(resBuf, id, NoErr, pos, FALSE, TRUE, Len(resBuf))
    ELSE
    LET ln == readInt32(b, pos)
        length == ln.n
        rd == ReadFull(b, ln.pos, length)
        compressed == rd.bytes
        inf == inflate(compressed)
    IN  IF ln.err # NoErr THEN SectionResult(<<>>, id, ln.err, ln.pos, FALSE, FALSE, Len(resBuf))
        ELSE IF length < 0 THEN SectionResult(<<>>, id, NoErr, ln.pos, TRUE, FALSE, Len(resBuf))
        ELSE IF rd.err # NoErr THEN SectionResult(<<>>, id, rd.err, rd.pos, FALSE, FALSE, Len(resBuf))
        ELSE IF length > 4 /\ At(compressed, 0) = 120 THEN
            IF ~zlibHeaderOk(compressed) THEN
                IF zr THEN SectionResult(<<>>, id, ErrZlib, rd.pos, FALSE, FALSE, Len(resBuf))
                ELSE SectionResult(<<>>, id, NoErr, rd.pos, TRUE, FALSE, Len(resBuf))
            ELSE IF inf.err # NoErr THEN
                SectionResult(<<>>, id, inf.err, rd.pos, FALSE, FALSE, Len(resBuf))
            ELSE modernChunks(b, rd.pos, id, count - 1, TRUE, resBuf \o inf.out)
        ELSE modernChunks(b, rd.pos, id, count - 1, zr, resBuf \o compressed)

\* modernDecoder.Section; sc is decoder.sectionsCounter
modernSection(b, pos, sz, sc) ==
    LET idr == readInt32(b, pos)
        raw == readInt32(b, idr.pos)
        hint == knownModernSectionIDSizeHints(idr.n)
        rd == ReadFull(b, raw.pos, raw.n)
        named == sc > 5
        sz2 == IF named THEN hint ELSE sz
        id == IF named THEN idr.n ELSE 0
        h == sectionHeader(b, IF named THEN raw.pos ELSE pos)
    IN  IF named /\ idr.err # NoErr THEN SectionResult(<<>>, 0, idr.err, idr.pos, FALSE, FALSE, 0)
        ELSE IF named /\ raw.err # NoErr THEN SectionResult(<<>>, id, raw.err, raw.pos, FALSE, FALSE, 0)
        ELSE IF named /\ hint = 0 THEN
            IF raw.n < 0 THEN SectionResult(<<>>, id, NoErr, raw.pos, TRUE, FALSE, 0)
            ELSE SectionResult(rd.bytes \o Zeros(raw.n - Len(rd.bytes)), id, rd.err, rd.pos,
                               FALSE, FALSE, 0)
        ELSE IF sz2 = 0 THEN SectionResult(<<>>, id, NoErr, pos, FALSE, FALSE, 0)
        ELSE IF h.err # NoErr THEN SectionResult(<<>>, id, h.err, h.pos, FALSE, FALSE, 0)
        ELSE IF sz2 < 0 THEN SectionResult(<<>>, id, NoErr, h.pos, TRUE, FALSE, 0)
        ELSE modernChunks(b, h.pos, id, h.count, FALSE, <<>>)

\* Decoder.Section of the decoder newDecoder made for format f
Section(e, z, f, sc, b, pos, sz) ==
    IF newDecoder(f) = "modernDecoder" THEN WithEsi(modernSection(b, pos, sz, sc), e, z)
    ELSE legacySection(e, z, b, pos, sz)


---------------------------------------------------------------------------
(* The sections of a replay and their parse functions                      *)

NoSection == -1

\* Sections[i].Size for the five fixed sections; 0: the size is read as a section of 4 bytes
SectionSize(i) == CASE i = 0 -> 4 [] i = 1 -> 633 [] i = 4 -> 768 [] OTHER -> 0

SectionReplayID == 0
SectionHeader == 1
SectionCommands == 2
SectionMapData == 3
SectionPlayerNames == 4

\* ModernSections[sectionID].ID, NoSection for an ID not in the map
ModernSections(id) ==
    CASE id = 1313426259 -> 5
      [] id = 1398033740 -> 6
      [] id = 1481197122 -> 7
      [] id = 1380729667 -> 8
      [] id = 1195787079 -> 9
      [] id = 1952539219 -> 10
      [] OTHER -> NoSection

repIDs == {<<115, 101, 82, 83>>, <<114, 101, 82, 83>>}

parseReplayID(d) == IF d \in repIDs THEN NoErr ELSE ErrNotReplayFile

\* cString: the bytes before the first 0x00 (all of them if there is none).
\* The names here are ASCII, which is valid UTF-8 and stays as it is.
cString(d) ==
    LET zero == {i \in 1..Len(d) : d[i] = 0}
    IN  IF zero = {} THEN d
        ELSE SubSeq(d, 1, (CHOOSE i \in zero : \A j \in zero : i <= j) - 1)

GameTypeMelee == 2
GameTypeFFA == 3
GameType1on1 == 4
GameTypeUMS == 10

PlayerTypeInactive == 0
PlayerTypeComputer == 1
PlayerTypeHuman == 2

slotsCount == 12
\* One player struct of the header: slot i (0-based) of data.  The colour
\* of a player has no part in what is modelled and is left out.
headerSlot(d, i) ==
    LET ps == Slice(d, 161 + i * 36, 161 + i * 36 + 36) IN
    [SlotID |-> Uint16(ps, 0), ID |-> At(ps, 4), Type |-> At(ps, 8), Race |-> At(ps, 9),
     Team |-> At(ps, 10), Name |-> cString(Slice(ps, 11, 36)), Observer |-> FALSE]

\* The numbers of a finite set in increasing order
RECURSIVE Ascending(_)
Ascending(S) ==
    IF S = {} THEN <<>>
    ELSE LET m == CHOOSE x \in S : \A y \in S : x <= y
         IN  <<m>> \o Ascending(S \ {m})

\* sort.SliceStable by Team of a list of slot indices (insertion of each
\* element after the last one whose team is not greater)
RECURSIVE sortByTeam(_, _)
sortByTeam(slots, idx) ==
    IF idx = <<>> THEN <<>>
    ELSE LET rest == sortByTeam(slots, SubSeq(idx, 1, Len(idx) - 1))
             x == idx[Len(idx)]
             before == {k \in 1..Len(rest) : slots[rest[k]].Team <= slots[x].Team}
             n == IF before = {} THEN 0 ELSE CHOOSE k \in before : \A j \in before : j <= k
         IN  SubSeq(rest, 1, n) \o <<x>> \o SubSeq(rest, n + 1, Len(rest))

\* PIDPlayers: the slot a player ID maps to; a later slot with the same ID replaces an earlier one
PIDPlayersOf(slots, orig) ==
    [id \in {slots[orig[k]].ID : k \in 1..Len(orig)} |->
        LET ks == {k \in 1..Len(orig) : slots[orig[k]].ID = id}
        IN  orig[CHOOSE k \in ks : \A j \in ks : j <= k]]

\* parseHeader.  Players are held by the index of their slot: Slots is the
\* storage, and OrigPlayers, Players and PIDPlayers point into it.
parseHeader(d) ==
    IF Len(d) < 625 THEN [panic |-> TRUE, h |-> <<>>]
    ELSE
    LET slots0 == [i \in 1..slotsCount |-> headerSlot(d, i - 1)]
        orig == Ascending({i \in 1..slotsCount : slots0[i].Name # <<>>})
        type == Uint16(d, 60)
        slots1 == IF /\ type \in {GameTypeMelee, GameType1on1}
                     /\ Len(orig) = 2
                     /\ slots0[orig[1]].Team = slots0[orig[2]].Team
                  THEN [slots0 EXCEPT ![orig[1]].Team = 1, ![orig[2]].Team = 2]
                  ELSE slots0
        slots2 == IF type = GameTypeFFA
                  THEN [i \in 1..slotsCount |->
                          LET ks == {k \in 1..Len(orig) : orig[k] = i}
                          IN  IF ks = {} THEN slots1[i]
                              ELSE [slots1[i] EXCEPT !.Team = (CHOOSE k \in ks : TRUE) % 256]]
                  ELSE slots1
    IN  [panic |-> FALSE,
         h |-> [Frames |-> Uint32(d, 1), Type |-> type,
                MapWidth |-> Uint16(d, 52), MapHeight |-> Uint16(d, 54),
                Map |-> cString(Slice(d, 97, 97 + 26)),
                Slots |-> slots2, OrigPlayers |-> orig,
                Players |-> sortByTeam(slots2, orig),
                PIDPlayers |-> PIDPlayersOf(slots2, orig)]]

\* parsePlayerNames: the slots with the names of the section put in
parsePlayerNames(d, slots) ==
    [i \in 1..Len(slots) |->
        LET pos == (i - 1) * 96
            name == cString(Slice(d, pos, pos + 96))
        IN  IF pos + 96 <= Len(d) /\ slots[i].Type # PlayerTypeInactive /\ name # <<>>
            THEN [slots[i] EXCEPT !.Name = name]
            ELSE slots[i]]


---------------------------------------------------------------------------
(* sliceReader: each read returns the value, the new pos, and whether it   *)
(* panicked (a read outside b).  pos is a uint32 word.                     *)

getByte(b, pos) ==
    IF pos < 0 \/ pos >= Len(b) THEN [panic |-> TRUE, v |-> 0, pos |-> pos]
    ELSE [panic |-> FALSE, v |-> At(b, pos), pos |-> AddU32(pos, 1)]

getUint16(b, pos) ==
    IF pos < 0 \/ pos + 2 > Len(b) THEN [panic |-> TRUE, v |-> 0, pos |-> pos]
    ELSE [panic |-> FALSE, v |-> Uint16(b, pos), pos |-> AddU32(pos, 2)]

getUint32(b, pos) ==
    IF pos < 0 \/ pos + 4 > Len(b) THEN [panic |-> TRUE, v |-> 0, pos |-> pos]
    ELSE [panic |-> FALSE, v |-> Uint32(b, pos), pos |-> AddU32(pos, 4)]

getString(b, pos, n) ==
    IF pos < 0 \/ pos + n > Len(b) THEN [panic |-> TRUE, v |-> <<>>, pos |-> pos]
    ELSE [panic |-> FALSE, v |-> Slice(b, pos, pos + n), pos |-> AddU32(pos, n)]

\* readSlice: n bytes, those that b does not have left being 0
readSlice(b, pos, n) ==
    IF pos < 0 \/ pos > Len(b) THEN [panic |-> TRUE, v |-> <<>>, pos |-> pos]
    ELSE LET got == Slice(b, pos, min(pos + n, Len(b)))
         IN  [panic |-> FALSE, v |-> got \o Zeros(n - Len(got)), pos |-> AddU32(pos, Len(got))]

---------------------------------------------------------------------------
(* Commands, parseCommands                                                 *)

TypeIDKeepAlive == 5
TypeIDSaveGame == 6
TypeIDLoadGame == 7
TypeIDSelect == 9
TypeIDSelectAdd == 10
TypeIDSelectRemove == 11
TypeIDBuild == 12
TypeIDVision == 13
TypeIDAlliance == 14
TypeIDGameSpeed == 15
TypeIDCheat == 18
TypeIDHotkey == 19
TypeIDRightClick == 20
TypeIDTargetedOrder == 21
TypeIDStop == 26
TypeIDReturnCargo == 30
TypeIDTrain == 31
TypeIDCancelTrain == 32
TypeIDCloack == 33
TypeIDDecloack == 34
TypeIDUnitMorph == 35
TypeIDUnsiege == 37
TypeIDSiege == 38
TypeIDUnloadAll == 40
TypeIDUnload == 41
TypeIDHoldPosition == 43
TypeIDBurrow == 44
TypeIDUnburrow == 45
TypeIDLiftOff == 47
TypeIDTech == 48
TypeIDUpgrade == 50
TypeIDBuildingMorph == 53
TypeIDLatency == 85
TypeIDLeaveGame == 87
TypeIDMinimapPing == 88
TypeIDChat == 92
TypeIDSelect121 == 99
VirtualTypeIDLand == 254
OrderIDBuildingLand == 71

\* The types whose command has no data after the type ID
NoDataTypeIDs == {5, 8, 16, 17, 24, 25, 27, 28, 29, 39, 42, 46, 49, 51, 52, 54, 56, 57,
                  60, 84, 90, 91}

\* The types whose data is skipped: how many bytes (0 for every other type)
SkipLen(tid) ==
    CASE tid = 55 -> 6 [] tid \in {58, 59, 61, 66, 67} -> 1 [] tid = 62 -> 5
      [] tid = 63 -> 7 [] tid = 64 -> 17 [] tid \in {65, 68, 69} -> 2
      [] tid = 72 -> 12 [] tid = 86 -> 9 [] OTHER -> 0

QueueableTypeIDs == {TypeIDStop, TypeIDBurrow, TypeIDUnburrow, TypeIDReturnCargo,
                     TypeIDHoldPosition, TypeIDUnloadAll, TypeIDUnsiege, TypeIDSiege,
                     TypeIDCloack, TypeIDDecloack}

\* The types whose data is a fixed number of bytes taken with getByte /
\* getUint16 / getUint32: how many (0 for every other type)
FixedLen(tid) ==
    CASE tid = TypeIDRightClick -> 9
      [] tid = TypeIDHotkey -> 2
      [] tid \in {TypeIDTrain, TypeIDUnitMorph} -> 2
      [] tid = TypeIDTargetedOrder -> 10
      [] tid = TypeIDBuild -> 7
      [] tid \in QueueableTypeIDs -> 1
      [] tid = TypeIDLeaveGame -> 1
      [] tid = TypeIDMinimapPing -> 4
      [] tid = TypeIDVision -> 2
      [] tid = TypeIDAlliance -> 4
      [] tid = TypeIDGameSpeed -> 1
      [] tid \in {TypeIDCancelTrain, TypeIDUnload, TypeIDBuildingMorph} -> 2
      [] tid = TypeIDLiftOff -> 4
      [] tid \in {TypeIDTech, TypeIDUpgrade, TypeIDLatency} -> 1
      [] OTHER -> 0

\* A Base that is not given the frame of its block
BaseWithoutFrame(fr, pid, tid) == [Frame |-> 0, PlayerID |-> pid, Type |-> tid, IneffKind |-> 0]

\* repcmd.Base of a command at a frame: repcore.Frame(frame) reads the uint32 as int32
Base(fr, pid, tid) == [Frame |-> fr, PlayerID |-> pid, Type |-> tid, IneffKind |-> 0]

Cmd(base, struct, f) ==
    [Frame |-> base.Frame, PlayerID |-> base.PlayerID, Type |-> base.Type,
     IneffKind |-> base.IneffKind, Struct |-> struct, f |-> f]

\* The slots whose bit group of the given width in word w is not 0
SlotBits(w, slots, width) ==
    Ascending({i \in 0..(slots - 1) : (w \div (2^(i * width))) % (2^width) # 0})

\* The command of a fixed-length type from its data p
FixedCmd(base, p) ==
    LET tid == base.Type
        Pos(o) == [X |-> Uint16(p, o), Y |-> Uint16(p, o + 2)]
    IN  CASE tid = TypeIDRightClick ->
               Cmd(base, "RightClickCmd", [Pos |-> Pos(0), UnitTag |-> Uint16(p, 4),
                   Unit |-> Uint16(p, 6), Queued |-> At(p, 8) # 0])
          [] tid = TypeIDHotkey ->
               Cmd(base, "HotkeyCmd", [HotkeyType |-> At(p, 0), Group |-> At(p, 1)])
          [] tid \in {TypeIDTrain, TypeIDUnitMorph} ->
               Cmd(base, "TrainCmd", [Unit |-> Uint16(p, 0)])
          [] tid = TypeIDTargetedOrder ->
               Cmd(base, "TargetedOrderCmd", [Pos |-> Pos(0), UnitTag |-> Uint16(p, 4),
                   Unit |-> Uint16(p, 6), Order |-> At(p, 8), Queued |-> At(p, 9) # 0])
          [] tid = TypeIDBuild ->
               IF At(p, 0) = OrderIDBuildingLand
               THEN Cmd([base EXCEPT !.Type = VirtualTypeIDLand], "LandCmd",
                        [Order |-> At(p, 0), Pos |-> Pos(1), Unit |-> Uint16(p, 5)])
               ELSE Cmd(base, "BuildCmd",
                        [Order |-> At(p, 0), Pos |-> Pos(1), Unit |-> Uint16(p, 5)])
          [] tid \in QueueableTypeIDs -> Cmd(base, "QueueableCmd", [Queued |-> At(p, 0) # 0])
          [] tid = TypeIDLeaveGame -> Cmd(base, "LeaveGameCmd", [Reason |-> At(p, 0)])
          [] tid = TypeIDMinimapPing -> Cmd(base, "MinimapPingCmd", [Pos |-> Pos(0)])
          [] tid = TypeIDVision ->
               Cmd(base, "VisionCmd", [SlotIDs |-> SlotBits(Uint16(p, 0), 12, 1)])
          [] tid = TypeIDAlliance ->
               Cmd(base, "AllianceCmd",
                   [SlotIDs |-> SlotBits(Uint32(p, 0), 11, 2),
                    AlliedVictory |-> \E i \in 0..10 : (Uint32(p, 0) \div (4^i)) % 4 = 2])
          [] tid = TypeIDGameSpeed -> Cmd(base, "GameSpeedCmd", [Speed |-> At(p, 0)])
          [] tid = TypeIDCancelTrain -> Cmd(base, "CancelTrainCmd", [UnitTag |-> Uint16(p, 0)])
          [] tid = TypeIDUnload -> Cmd(base, "UnloadCmd", [UnitTag |-> Uint16(p, 0)])
          [] tid = TypeIDBuildingMorph -> Cmd(base, "BuildingMorphCmd", [Unit |-> Uint16(p, 0)])
          [] tid = TypeIDLiftOff -> Cmd(base, "LiftOffCmd", [Pos |-> Pos(0)])
          [] tid = TypeIDTech -> Cmd(base, "TechCmd", [Tech |-> At(p, 0)])
          [] tid = TypeIDUpgrade -> Cmd(base, "UpgradeCmd", [Upgrade |-> At(p, 0)])
          [] tid = TypeIDLatency -> Cmd(base, "LatencyCmd", [Latency |-> At(p, 0)])

\* count unit tags of w bytes each (the first 2 bytes are the tag)
UnitTags(p, count, w) == [i \in 1..count |-> Uint16(p, (i - 1) * w)]

\* One pass of the body of the command loop of parseCommands: the command
\* that starts at pos in a block of frame fr ending at endPos.
\*   panic : a read went outside data
\*   ok    : parseOk; if FALSE the type ID is not known and pos = endPos
\*   cmd   : the command to append to Cmds (if ok), or the Base of the ParseErrCmd
\* The 1.21 variants other than Select121 are not among the inputs.
parseCmd(d, pos, fr, endPos) ==
    LET pid == getByte(d, pos)
        typ == getByte(d, pid.pos)
        tid == typ.v
        base == Base(fr, pid.v, tid)
        at == typ.pos
        Res(pan, p2, c, ok) == [panic |-> pan, pos |-> p2, cmd |-> c, ok |-> ok]
        Bad == Res(TRUE, at, Cmd(base, "Base", <<>>), FALSE)
        cnt == getByte(d, at)
        sg == getUint32(d, at)
        tagw == IF tid = TypeIDSelect121 THEN 4 ELSE 2
    IN  IF pid.panic \/ typ.panic THEN Bad
        ELSE IF FixedLen(tid) > 0 THEN
            IF at + FixedLen(tid) > Len(d) THEN Bad
            ELSE Res(FALSE, at + FixedLen(tid),
                     FixedCmd(base, Slice(d, at, at + FixedLen(tid))), TRUE)
        ELSE IF tid \in {TypeIDSelect, TypeIDSelectAdd, TypeIDSelectRemove, TypeIDSelect121} THEN
            IF cnt.panic \/ cnt.pos + tagw * cnt.v > Len(d) THEN Bad
            ELSE Res(FALSE, cnt.pos + tagw * cnt.v,
                     Cmd(base, "SelectCmd",
                         [UnitTags |-> UnitTags(Slice(d, cnt.pos, cnt.pos + tagw * cnt.v),
                                                cnt.v, tagw)]), TRUE)
        ELSE IF tid = TypeIDChat THEN
            IF cnt.panic THEN Bad
            ELSE LET msg == readSlice(d, cnt.pos, 80) IN
                 Res(FALSE, msg.pos,
                     Cmd(base, "ChatCmd", [SenderSlotID |-> cnt.v, Message |-> cString(msg.v)]),
                     TRUE)
        ELSE IF tid = TypeIDCheat THEN
            LET dat == readSlice(d, at, 4) IN
            Res(FALSE, dat.pos, Cmd(base, "GeneralCmd", [Data |-> dat.v]), TRUE)
        ELSE IF tid \in {TypeIDSaveGame, TypeIDLoadGame} THEN
            IF sg.panic THEN Bad
            ELSE Res(FALSE, AddU32(sg.pos, sg.v), Cmd(base, "Base", <<>>), TRUE)
        ELSE IF tid \in NoDataTypeIDs THEN Res(FALSE, at, Cmd(base, "Base", <<>>), TRUE)
        ELSE IF SkipLen(tid) > 0 THEN
            Res(FALSE, AddU32(at, SkipLen(tid)), Cmd(base, "Base", <<>>), TRUE)
        ELSE Res(FALSE, endPos, Cmd(base, "ParseErrCmd", <<>>), FALSE)

\* The head of a frame block at pos: the frame, the block size, the end of the block
frameBlock(d, pos) ==
    LET fr == getUint32(d, pos)
        sz == getByte(d, fr.pos)
    IN  IF fr.panic \/ sz.panic THEN [panic |-> TRUE, frame |-> 0, pos |-> pos, endPos |-> pos]
        ELSE [panic |-> FALSE, frame |-> fr.v, pos |-> sz.pos, endPos |-> AddU32(sz.pos, sz.v)]

\* Commands with one more command decoded: res is what parseCmd returned
appendCmd(cs, res) ==
    IF res.ok THEN [cs EXCEPT !.Cmds = Append(cs.Cmds, res.cmd)]
    ELSE [cs EXCEPT !.ParseErrCmds =
              Append(cs.ParseErrCmds,
                     [Frame |-> res.cmd.Frame, PlayerID |-> res.cmd.PlayerID,
                      Type |-> res.cmd.Type, PrevCmd |-> Len(cs.Cmds)])]

---------------------------------------------------------------------------
(* ParseConfig: parseProtected around the section loop of parse()          *)

NewReplay(f) == [RepFormat |-> f, Header |-> <<>>, Commands |-> <<>>, MapData |-> <<>>,
                 Computed |-> <<>>]

NoRet == [nil |-> TRUE, err |-> NoErr, wrap |-> "", escaped |-> FALSE]

\* parseProtected without the recover(): a panic of parse() goes on to the caller
parseUnprotected(res) ==
    [nil |-> res.nil, err |-> res.err, wrap |-> res.wrap, escaped |-> res.panic]

\* parseProtected: what ParseConfig returns when parse() ended with res; a
\* panic is recovered and becomes (nil, ErrParsing)
parseProtected(res) ==
    IF res.panic THEN [nil |-> TRUE, err |-> ErrParsing, wrap |-> "", escaped |-> FALSE]
    ELSE [nil |-> res.nil, err |-> res.err, wrap |-> res.wrap, escaped |-> FALSE]

\* The ways parse() ends
Panic == [panic |-> TRUE, nil |-> TRUE, err |-> NoErr, wrap |-> ""]
ReturnR == [panic |-> FALSE, nil |-> FALSE, err |-> NoErr, wrap |-> ""]
ReturnErr(e, w) == [panic |-> FALSE, nil |-> TRUE, err |-> e, wrap |-> w]

Return(res) ==
    /\ ret' = parseProtected(res)
    /\ panicked' = res.panic
    /\ crashed' = ret'.escaped
    /\ pc' = IF ret'.escaped THEN "Crashed" ELSE "Returned"

\* The next iteration of the section loop
Continue ==
    /\ sectionCounter' = sectionCounter + 1
    /\ pc' = "NewSection"
    /\ UNCHANGED retVars

LogSection(sr, sz) ==
    Append(secLog, [decoder |-> newDecoder(rf), size |-> sz, err |-> sr.err,
                    panic |-> sr.panic, chunked |-> sr.chunked, total |-> sr.total,
                    len |-> Len(sr.data)])

\* ParseConfig up to the section loop: repdecoder.New, new(rep.Replay)
ParseConfig ==
    /\ pc = "ParseConfig"
    /\ rf' = New(repData)
    /\ sectionsCounter' = 0
    /\ rpos' = 0
    /\ sectionCounter' = 0
    /\ r' = NewReplay(rf')
    /\ pc' = "NewSection"
    /\ UNCHANGED <<callVars, esiVars, repData, cfg, s, size, data, retVars, secLog, srVars, hist>>

\* parse(): dec.NewSection() and the choice of the section
ParseNewSection ==
    /\ pc = "NewSection"
    /\ LET ns == NewSection(rf, sectionsCounter + 1, repData, rpos) IN
       /\ sectionsCounter' = sectionsCounter + 1
       /\ rpos' = ns.pos
       /\ IF ns.err = ErrNoMoreSections THEN
              Return(ReturnR) /\ UNCHANGED <<s, size>>
          ELSE IF ns.err # NoErr THEN
              Return(ReturnErr(ns.err, "Decoder.NewSection()")) /\ UNCHANGED <<s, size>>
          ELSE
              /\ s' = IF sectionCounter < 5 THEN sectionCounter ELSE NoSection
              /\ size' = IF sectionCounter < 5 THEN SectionSize(sectionCounter) ELSE 0
              /\ pc' = IF sectionCounter < 5 /\ SectionSize(sectionCounter) = 0
                       THEN "SectionSize" ELSE "Section"
              /\ UNCHANGED retVars
    /\ UNCHANGED <<callVars, esiVars, repData, cfg, rf, sectionCounter, data, r, secLog, srVars, hist>>

\* parse(): the size of the section, read as a section of 4 bytes; sr is
\* what dec.Section(4) returned
SectionSizeRead(sr) ==
    /\ secLog' = LogSection(sr, 4)
    /\ rpos' = sr.pos
    /\ IF sr.panic THEN Return(Panic) /\ UNCHANGED size
       ELSE IF sr.err # NoErr THEN
           Return(ReturnErr(sr.err, "Decoder.Section() size")) /\ UNCHANGED size
       ELSE IF Len(sr.data) < 4 THEN Return(Panic) /\ UNCHANGED size
       ELSE /\ size' = Uint32(sr.data, 0)
            /\ pc' = "Section"
            /\ UNCHANGED retVars

ParseSectionSize ==
    /\ pc = "SectionSize"
    /\ LET sr == Section(esi, zeroedEsiData, rf, sectionsCounter, repData, rpos, 4) IN
       /\ SectionSizeRead(sr)
       /\ esi' = sr.esi
       /\ zeroedEsiData' = sr.zeroed
    /\ UNCHANGED <<callVars, repData, cfg, rf, sectionsCounter, sectionCounter, s, data, r, srVars, hist>>

\* parse(): dec.Section(size), its errors, and whether the section is
\* processed; sr is what dec.Section(size) returned
SectionRead(sr) ==
    LET err == IF s = SectionReplayID THEN ErrNotReplayFile ELSE sr.err
        s2 == IF s = NoSection THEN ModernSections(sr.sectionID) ELSE s
    IN
    /\ secLog' = LogSection(sr, size)
    /\ rpos' = sr.pos
    /\ IF sr.panic THEN Return(Panic) /\ UNCHANGED <<sectionCounter, s, data>>
       ELSE IF sr.err # NoErr THEN
           /\ UNCHANGED <<sectionCounter, s, data>>
           /\ IF err = EOF \/ sectionCounter >= 5 THEN Return(ReturnR)
              ELSE Return(ReturnErr(err, "Decoder.Section()"))
       ELSE IF \/ s2 = NoSection
               \/ s2 = SectionCommands /\ ~cfg.Commands
               \/ s2 = SectionMapData /\ ~cfg.MapData
       THEN Continue /\ UNCHANGED <<s, data>>
       ELSE /\ s' = s2
            /\ data' = sr.data
            /\ pc' = "ParseFunc"
            /\ UNCHANGED <<sectionCounter, retVars>>

ParseSection ==
    /\ pc = "Section"
    /\ LET sr == Section(esi, zeroedEsiData, rf, sectionsCounter, repData, rpos, size) IN
       /\ SectionRead(sr)
       /\ esi' = sr.esi
       /\ zeroedEsiData' = sr.zeroed
    /\ UNCHANGED <<callVars, repData, cfg, rf, sectionsCounter, size, r, srVars, hist>>

\* s.ParseFunc for the replay ID section
ParseReplayID ==
    /\ pc = "ParseFunc" /\ s = SectionReplayID
    /\ IF parseReplayID(data) # NoErr
       THEN Return(ReturnErr(parseReplayID(data), "ParseFunc()")) /\ UNCHANGED sectionCounter
       ELSE Continue
    /\ UNCHANGED <<callVars, esiVars, repData, cfg, decVars, s, size, data, r, secLog, srVars, hist>>

\* s.ParseFunc for the header section
ParseHeader ==
    /\ pc = "ParseFunc" /\ s = SectionHeader
    /\ LET ph == parseHeader(data) IN
       IF ph.panic THEN Return(Panic) /\ UNCHANGED <<sectionCounter, r>>
       ELSE r' = [r EXCEPT !.Header = <<ph.h>>] /\ Continue
    /\ UNCHANGED <<callVars, esiVars, repData, cfg, decVars, s, size, data, secLog, srVars, hist>>

\* s.ParseFunc for the player names section
ParsePlayerNames ==
    /\ pc = "ParseFunc" /\ s = SectionPlayerNames
    /\ r' = [r EXCEPT !.Header[1].Slots = parsePlayerNames(data, r.Header[1].Slots)]
    /\ Continue
    /\ UNCHANGED <<callVars, esiVars, repData, cfg, decVars, s, size, data, secLog, srVars, hist>>

\* s.ParseFunc for the sections of ModernSections: parseSkin, parseLmts,
\* parseBfix, parseGcfg return nil; parsePlayerColors and
\* parseShieldBatterySection fill colours and launcher details, which are
\* not part of the Replay as modelled here, and return nil
ParseModernSection ==
    /\ pc = "ParseFunc" /\ s >= 5
    /\ Continue
    /\ UNCHANGED <<callVars, esiVars, repData, cfg, decVars, s, size, data, r, secLog, srVars, hist>>


---------------------------------------------------------------------------
(* parseCommands as the steps of its two loops.  hist.visited holds the    *)
(* loop heads passed so far with the values the rest of the run depends    *)
(* on; hist.repeat tells that one of them came up a second time, and the   *)
(* steps stop there: the input does not change, so from then on the loop   *)
(* does the same thing over and over.                                      *)

NoHist == [blocks |-> <<>>, visited |-> {}, repeat |-> FALSE, back |-> FALSE]

Visit(h, point) == [h EXCEPT !.visited = h.visited \cup {point}, !.repeat = point \in h.visited]

\* s.ParseFunc for the commands section, up to the loop
ParseCommandsBegin ==
    /\ pc = "ParseFunc" /\ s = SectionCommands
    /\ r' = [r EXCEPT !.Commands = <<[Cmds |-> <<>>, ParseErrCmds |-> <<>>]>>]
    /\ srPos' = 0
    /\ pc' = "CmdLoop"
    /\ UNCHANGED <<callVars, esiVars, repData, cfg, decVars, loopVars, retVars, secLog, frame, cmdBlockEndPos, hist>>

\* The head of the frame loop, loop condition true: frame and block size
CmdFrameBlock ==
    /\ pc = "CmdLoop" /\ LtU32(srPos, Len(data)) /\ ~hist.repeat
    /\ LET fb == frameBlock(data, srPos) IN
       IF fb.panic THEN Return(Panic) /\ UNCHANGED <<srVars, hist>>
       ELSE /\ frame' = fb.frame
            /\ srPos' = fb.pos
            /\ cmdBlockEndPos' = fb.endPos
            /\ hist' = [Visit(hist, <<"CmdLoop", srPos, 0, 0>>) EXCEPT
                           !.blocks = Append(hist.blocks,
                               [start |-> srPos, frame |-> fb.frame, endPos |-> fb.endPos,
                                cmds |-> Len(r.Commands[1].Cmds),
                                errs |-> Len(r.Commands[1].ParseErrCmds)])]
            /\ pc' = "CmdBlock"
            /\ UNCHANGED retVars
    /\ UNCHANGED <<callVars, esiVars, repData, cfg, decVars, loopVars, r, secLog>>

\* The body of the command loop, loop condition true: one command
CmdStep ==
    /\ pc = "CmdBlock" /\ LtU32(srPos, cmdBlockEndPos) /\ ~hist.repeat
    /\ LET res == parseCmd(data, srPos, frame, cmdBlockEndPos) IN
       IF res.panic THEN Return(Panic) /\ UNCHANGED <<srPos, r, hist>>
       ELSE /\ r' = [r EXCEPT !.Commands[1] = appendCmd(r.Commands[1], res)]
            /\ srPos' = res.pos
            /\ hist' = [Visit(hist, <<"CmdBlock", srPos, frame, cmdBlockEndPos>>) EXCEPT
                           !.back = hist.back \/ ~LtU32(srPos, res.pos)]
            /\ UNCHANGED <<pc, retVars>>
    /\ UNCHANGED <<callVars, esiVars, repData, cfg, decVars, loopVars, secLog, frame, cmdBlockEndPos>>

\* The command loop ends: sr.pos = cmdBlockEndPos, back to the frame loop
CmdBlockEnd ==
    /\ pc = "CmdBlock" /\ ~LtU32(srPos, cmdBlockEndPos)
    /\ srPos' = cmdBlockEndPos
    /\ pc' = "CmdLoop"
    /\ UNCHANGED <<callVars, esiVars, repData, cfg, decVars, loopVars, r, retVars, secLog, frame, cmdBlockEndPos, hist>>

\* The frame loop ends: parseCommands returns nil
ParseCommandsReturn ==
    /\ pc = "CmdLoop" /\ ~LtU32(srPos, Len(data))
    /\ Continue
    /\ UNCHANGED <<callVars, esiVars, repData, cfg, decVars, s, size, data, r, secLog, srVars, hist>>


\* parseCommands as one function of the data of the section: the two loops
\* run to their end.  seen holds the loop heads passed; a head that comes up
\* again ends the run with loop set, the run of the code has no end then.
RECURSIVE frameLoop(_, _, _)
RECURSIVE cmdLoopOf(_, _, _, _, _)

cmdLoopStep2(d, fr, endPos, st, res) ==
    IF res.panic THEN [st EXCEPT !.panic = TRUE]
    ELSE cmdLoopOf(d, res.pos, fr, endPos, [st EXCEPT !.cs = appendCmd(st.cs, res)])

cmdLoopOf(d, pos, fr, endPos, st) ==
    IF ~LtU32(pos, endPos) THEN frameLoop(d, endPos, st)
    ELSE IF <<"CmdBlock", pos, fr, endPos>> \in st.seen THEN [st EXCEPT !.loop = TRUE]
    ELSE cmdLoopStep2(d, fr, endPos,
                      [st EXCEPT !.seen = @ \cup {<<"CmdBlock", pos, fr, endPos>>}],
                      parseCmd(d, pos, fr, endPos))

frameLoopStep(d, st, fb) ==
    IF fb.panic THEN [st EXCEPT !.panic = TRUE]
    ELSE cmdLoopOf(d, fb.pos, fb.frame, fb.endPos, st)

frameLoop(d, pos, st) ==
    IF ~LtU32(pos, Len(d)) THEN st
    ELSE IF <<"CmdLoop", pos, 0, 0>> \in st.seen THEN [st EXCEPT !.loop = TRUE]
    ELSE frameLoopStep(d, [st EXCEPT !.seen = @ \cup {<<"CmdLoop", pos, 0, 0>>}],
                       frameBlock(d, pos))

parseCommands(d) ==
    frameLoop(d, 0, [cs |-> [Cmds |-> <<>>, ParseErrCmds |-> <<>>], seen |-> {},
                     loop |-> FALSE, panic |-> FALSE])

---------------------------------------------------------------------------
(* parseMapData: one step per sub-section.  Of the map data the start      *)
(* locations and the name are kept (Compute reads them) and the map size   *)
(* goes to the header; tiles, resources, owners and sides are read the way *)
(* the code reads them, for the sake of the reads that can go outside      *)
(* data, and their values are dropped.  cfg.MapGraphics is off.            *)

UnitIDStartLocation == 214

\* Sub-section IDs as bytes
IdVER == <<86, 69, 82, 32>>
IdERA == <<69, 82, 65, 32>>
IdDIM == <<68, 73, 77, 32>>
IdOWNR == <<79, 87, 78, 82>>
IdSIDE == <<83, 73, 68, 69>>
IdMTXM == <<77, 84, 88, 77>>
IdUNIT == <<85, 78, 73, 84>>
IdSPRP == <<83, 80, 82, 80>>
IdSTR == <<83, 84, 82, 32>>
IdSTRx == <<83, 84, 82, 120>>

\* The loop over the placed units of a "UNIT" sub-section
RECURSIVE placedUnits(_, _, _, _)
placedUnits(d, pos, ssEndPos, locs) ==
    IF ~LeU32(AddU32(pos, 36), ssEndPos) THEN [panic |-> FALSE, locs |-> locs]
    ELSE IF pos < 0 \/ pos + 24 > Len(d) THEN [panic |-> TRUE, locs |-> locs]
    ELSE placedUnits(d, pos + 36, ssEndPos,
                     IF Uint16(d, pos + 8) = UnitIDStartLocation
                     THEN Append(locs, [X |-> Uint16(d, pos + 4), Y |-> Uint16(d, pos + 6),
                                        SlotID |-> At(d, pos + 16)])
                     ELSE locs)

\* The switch on the sub-section ID: pos is where the data of the sub-section starts
mapSubSection(d, id, pos, ssSize, ssEndPos, md, h) ==
    LET Res(pan, md2, h2) == [panic |-> pan, md |-> md2, h |-> h2]
        width == Uint16(d, pos)
        height == Uint16(d, pos + 2)
        units == placedUnits(d, pos, ssEndPos, md.StartLocations)
    IN  CASE id \in {IdVER, IdERA} -> Res(pos + 2 > Len(d), md, h)
          [] id = IdDIM ->
               IF pos + 4 > Len(d) THEN Res(TRUE, md, h)
               ELSE IF width <= 256 /\ height <= 256
               THEN Res(FALSE, md,
                        [h EXCEPT !.MapWidth = IF width > @ THEN width ELSE @,
                                  !.MapHeight = IF height > @ THEN height ELSE @])
               ELSE Res(FALSE, md, h)
          [] id = IdMTXM -> Res(ssSize < 0 \/ pos + 2 * (ssSize \div 2) > Len(d), md, h)
          [] id = IdUNIT -> Res(units.panic, [md EXCEPT !.StartLocations = units.locs], h)
          [] id = IdSPRP ->
               IF pos + 4 > Len(d) THEN Res(TRUE, md, h)
               ELSE Res(FALSE, [md EXCEPT !.scenarioNameIdx = Uint16(d, pos)], h)
          [] id \in {IdSTR, IdSTRx} ->
               IF ssEndPos < pos \/ ssEndPos > Len(d) THEN Res(TRUE, md, h)
               ELSE Res(FALSE,
                        [md EXCEPT !.stringsData =
                                       IF Len(@) < ssEndPos - pos THEN Slice(d, pos, ssEndPos)
                                       ELSE copyAt(@, 0, Slice(d, pos, ssEndPos)),
                                   !.extendedStringsData = @ \/ id = IdSTRx],
                        h)
          [] OTHER -> Res(FALSE, md, h)

\* The closure getString of parseMapData: the string of index idx in stringsData
mapString(md, idx) ==
    LET offsetSize == IF md.extendedStringsData THEN 4 ELSE 2
        pos == idx * offsetSize
        offset == IF md.extendedStringsData THEN Uint32(md.stringsData, pos)
                  ELSE Uint16(md.stringsData, pos)
    IN  IF idx = 0 THEN <<>>
        ELSE IF pos + offsetSize - 1 >= Len(md.stringsData) THEN <<>>
        ELSE IF offset < 0 \/ offset >= Len(md.stringsData) THEN <<>>
        ELSE cString(Slice(md.stringsData, offset, Len(md.stringsData)))

\* The end of parseMapData: md.Name = getString(scenarioNameIdx)
mapDataEnd(md) == [md EXCEPT !.Name = mapString(md, md.scenarioNameIdx)]

\* new(rep.MapData), with the variables of parseMapData that outlive a
\* pass of its loop: scenarioNameIdx, stringsData, extendedStringsData
NewMapData ==
    [StartLocations |-> <<>>, Name |-> <<>>, scenarioNameIdx |-> 0, stringsData |-> <<>>,
     extendedStringsData |-> FALSE]

\* s.ParseFunc for the map data section, up to the loop
ParseMapDataBegin ==
    /\ pc = "ParseFunc" /\ s = SectionMapData
    /\ r' = [r EXCEPT !.MapData = <<NewMapData>>]
    /\ srPos' = 0
    /\ pc' = "MapLoop"
    /\ UNCHANGED <<callVars, esiVars, repData, cfg, decVars, loopVars, retVars, secLog, frame, cmdBlockEndPos, hist>>

\* The body of the sub-section loop, loop condition true
MapSubSection ==
    /\ pc = "MapLoop" /\ LtU32(srPos, Len(data)) /\ ~hist.repeat
    /\ LET id == getString(data, srPos, 4)
           ssSize == getUint32(data, id.pos)
           ssEndPos == AddU32(ssSize.pos, ssSize.v)
           sub == mapSubSection(data, id.v, ssSize.pos, ssSize.v, ssEndPos,
                                r.MapData[1], r.Header[1])
       IN
       IF id.panic THEN Return(Panic) /\ UNCHANGED <<sectionCounter, srPos, r, hist>>
       ELSE IF LeU32(Len(data), AddU32(id.pos, 4)) THEN
           /\ r' = [r EXCEPT !.MapData = <<mapDataEnd(r.MapData[1])>>]
           /\ Continue
           /\ UNCHANGED <<srPos, hist>>
       ELSE IF sub.panic THEN Return(Panic) /\ UNCHANGED <<sectionCounter, srPos, r, hist>>
       ELSE /\ r' = [r EXCEPT !.MapData = <<sub.md>>, !.Header = <<sub.h>>]
            /\ srPos' = ssEndPos
            /\ hist' = [Visit(hist, <<"MapLoop", srPos, 0, 0>>) EXCEPT
                           !.back = hist.back \/ ~LtU32(srPos, ssEndPos)]
            /\ UNCHANGED <<pc, sectionCounter, retVars>>
    /\ UNCHANGED <<callVars, esiVars, repData, cfg, decVars, s, size, data, secLog, frame, cmdBlockEndPos>>

\* The sub-section loop ends: parseMapData returns nil
ParseMapDataReturn ==
    /\ pc = "MapLoop" /\ ~LtU32(srPos, Len(data))
    /\ r' = [r EXCEPT !.MapData = <<mapDataEnd(r.MapData[1])>>]
    /\ Continue
    /\ UNCHANGED <<callVars, esiVars, repData, cfg, decVars, s, size, data, secLog, srVars, hist>>


---------------------------------------------------------------------------
(* EAPM: CmdIneffKind classifies the command cmds[i] of one player's       *)
(* commands (eapm-util.go).  i is 0-based as in the source.                *)

IneffKindEffective == 0
IneffKindUnitQueueOverflow == 1
IneffKindFastCancel == 2
IneffKindFastRepetition == 3
IneffKindFastReselection == 4
IneffKindRepetition == 5
IneffKindRepetitionHotkeyAddAssign == 6

HotkeyTypeIDSelect == 1

TypeIDCancelBuild == 24
TypeIDCancelMorph == 25
TypeIDTrainFighter == 39
TypeIDMergeArchon == 42
TypeIDCancelNuke == 46
TypeIDCancelTech == 49
TypeIDCancelUpgrade == 51
TypeIDCancelAddon == 52
TypeIDMergeDarkArchon == 90

OrderIDMove == 6
OrderIDPlaceProtossBuilding == 31
OrderIDRallyPointUnit == 39
OrderIDRallyPointTile == 40

\* IsOrderIDKindStop: Stop, ReaverStop, CarrierStop
IsOrderIDKindStop(oid) == oid \in {1, 7, 52}

\* IsOrderIDKindHold: HoldPosition and those of Carrier, Reaver, Queen, Medic
IsOrderIDKindHold(oid) == oid \in {107, 57, 62, 108, 178}

\* IsOrderIDKindAttack: Attack1, Attack2, AttackUnit, AttackFixedRange,
\* AttackMove, CarrierAttack, ReaverAttack
IsOrderIDKindAttack(oid) == oid \in {8, 9, 10, 11, 14, 53, 59}

\* a - b in int32 arithmetic (repcore.Frame is an int32)
SubI32(a, b) == AddU32(a, AddU32(-1 - b, 1))

\* The 1.21 variants of the select commands other than Select121 are no
\* types the parser here knows, so no command has them.
isSelectionChanger(cmd) ==
    \/ cmd.Type \in {TypeIDSelect, TypeIDSelectAdd, TypeIDSelectRemove, TypeIDSelect121}
    \/ cmd.Type = TypeIDHotkey /\ cmd.f.HotkeyType = HotkeyTypeIDSelect

\* The loop of countSameCmds from index i downwards
RECURSIVE countSameLoop(_, _, _, _, _)
countSameLoop(cmds, i, type, frameLimit, count) ==
    IF i < 0 THEN count
    ELSE IF cmds[i + 1].Frame < frameLimit THEN count
    ELSE IF cmds[i + 1].Type = type THEN
        IF count + 1 = 6 THEN 6
        ELSE countSameLoop(cmds, i - 1, type, frameLimit, count + 1)
    ELSE IF isSelectionChanger(cmds[i + 1]) THEN count
    ELSE countSameLoop(cmds, i - 1, type, frameLimit, count)

countSameCmds(cmds, i, cmd) == countSameLoop(cmds, i, cmd.Type, SubI32(cmd.Frame, 25), 0)

\* The last test of CmdIneffKind with any two types that are not select
anyHotkeyAddAssign(cmd, prevCmd) ==
    /\ cmd.Struct = "HotkeyCmd" /\ cmd.f.HotkeyType # HotkeyTypeIDSelect
    /\ prevCmd.Struct = "HotkeyCmd" /\ prevCmd.f.HotkeyType # HotkeyTypeIDSelect
    /\ cmd.f.Group = prevCmd.f.Group

\* The last test of CmdIneffKind: the same hotkey assign or add again
sameHotkeyAddAssign(cmd, prevCmd) ==
    /\ cmd.Struct = "HotkeyCmd" /\ cmd.f.HotkeyType # HotkeyTypeIDSelect
    /\ prevCmd.Struct = "HotkeyCmd" /\ prevCmd.f.HotkeyType = cmd.f.HotkeyType
    /\ cmd.f.Group = prevCmd.f.Group

\* The test of CmdIneffKind on cmds[i-2] that ignores its frame
tappedBeforeWhenever(cmds, i, cmd, prevCmd) ==
    /\ i >= 2
    /\ cmds[i - 1].Struct = "HotkeyCmd"
    /\ cmds[i - 1].f.HotkeyType = HotkeyTypeIDSelect
    /\ cmds[i - 1].f.Group = cmd.f.Group

\* The test of CmdIneffKind on cmds[i-2], here cmds[i - 1], for a double tap:
\* the same hotkey was selected at most 8 frames before cmds[i-1] too
tappedBefore(cmds, i, cmd, prevCmd) ==
    /\ i >= 2
    /\ cmds[i - 1].Struct = "HotkeyCmd"
    /\ cmds[i - 1].f.HotkeyType = HotkeyTypeIDSelect
    /\ cmds[i - 1].f.Group = cmd.f.Group
    /\ SubI32(prevCmd.Frame, cmds[i - 1].Frame) <= 8

\* CmdIneffKind for i > 0: cmd = cmds[i], prevCmd = cmds[i-1]
ineffKindOf(cmds, i, cmd, prevCmd, deltaFrame) ==
    LET tid == cmd.Type
        prevTid == prevCmd.Type
        selection == deltaFrame <= 8 /\ isSelectionChanger(cmd) /\ isSelectionChanger(prevCmd)
        isAddRemove == tid \in {TypeIDSelectAdd, TypeIDSelectRemove}
        doubleTap == /\ ~isAddRemove
                     /\ cmd.Struct = "HotkeyCmd" /\ prevCmd.Struct = "HotkeyCmd"
                     /\ cmd.f.Group = prevCmd.f.Group
        thirdTap == doubleTap /\ tappedBefore(cmds, i, cmd, prevCmd)
    IN  IF /\ tid \in {TypeIDTrain, TypeIDTrainFighter, TypeIDCancelTrain}
           /\ countSameCmds(cmds, i, cmd) >= 6
        THEN IneffKindUnitQueueOverflow
        ELSE IF /\ deltaFrame <= 20
                /\ \/ prevTid \in {TypeIDTrain, TypeIDTrainFighter} /\ tid = TypeIDCancelTrain
                   \/ prevTid \in {TypeIDUnitMorph, TypeIDBuildingMorph} /\ tid = TypeIDCancelMorph
                   \/ prevTid = TypeIDUpgrade /\ tid = TypeIDCancelUpgrade
                   \/ prevTid = TypeIDTech /\ tid = TypeIDCancelTech
        THEN IneffKindFastCancel
        ELSE IF /\ deltaFrame <= 10 /\ tid = prevTid
                /\ \/ tid \in {TypeIDStop, TypeIDHoldPosition, VirtualTypeIDLand}
                   \/ /\ tid = TypeIDTargetedOrder
                      /\ cmd.f.Order = prevCmd.f.Order
                      /\ \/ IsOrderIDKindStop(cmd.f.Order)
                         \/ IsOrderIDKindAttack(cmd.f.Order)
                         \/ IsOrderIDKindHold(cmd.f.Order)
                         \/ cmd.f.Order \in {OrderIDMove, OrderIDRallyPointUnit,
                                             OrderIDRallyPointTile}
        THEN IneffKindFastRepetition
        ELSE IF selection /\ thirdTap THEN IneffKindFastReselection
        ELSE IF selection /\ ~isAddRemove /\ ~doubleTap THEN IneffKindFastReselection
        ELSE IF /\ tid = prevTid
                /\ \/ tid \in {TypeIDUnitMorph, TypeIDBuildingMorph, TypeIDUpgrade,
                               TypeIDMergeArchon, TypeIDMergeDarkArchon, TypeIDLiftOff,
                               TypeIDCancelAddon, TypeIDCancelBuild, TypeIDCancelMorph,
                               TypeIDCancelNuke, TypeIDCancelTech, TypeIDCancelUpgrade}
                   \/ tid = TypeIDBuild /\ cmd.f.Order # OrderIDPlaceProtossBuilding
        THEN IneffKindRepetition
        ELSE IF sameHotkeyAddAssign(cmd, prevCmd)
        THEN IneffKindRepetitionHotkeyAddAssign
        ELSE IneffKindEffective

\* CmdIneffKind that takes the first command as its own previous command
CmdIneffKindNoFirst(cmds, i) ==
    ineffKindOf(cmds, i, cmds[i + 1], cmds[IF i = 0 THEN 1 ELSE i],
                SubI32(cmds[i + 1].Frame, cmds[IF i = 0 THEN 1 ELSE i].Frame))

CmdIneffKind(cmds, i) ==
    IF i = 0 THEN IneffKindEffective
    ELSE ineffKindOf(cmds, i, cmds[i + 1], cmds[i],
                     SubI32(cmds[i + 1].Frame, cmds[i].Frame))

---------------------------------------------------------------------------
(* Replay.Compute (rep/replay.go).  Maps of the source are functions       *)
(* whose domain is the set of keys.                                        *)

EmptyMap == [x \in {} |-> 0]

MapPut(m, k, v) == [x \in DOMAIN m \cup {k} |-> IF x = k THEN v ELSE m[x]]

\* m[k] of a map of numbers: 0 for a key the map does not hold
MapGet(m, k) == IF k \in DOMAIN m THEN m[k] ELSE 0

\* The elements of a sequence
Elems(q) == {q[i] : i \in 1..Len(q)}

\* repcore.Duration2Frame of a duration given in milliseconds: a frame is 42 ms
Duration2Frame(ms) == ms \div 42

\* The player Header.Players[i] (1-based)
PlayerAt(h, i) == h.Slots[h.Players[i]]

NewPlayerDesc(pid) ==
    [PlayerID |-> pid, LastCmdFrame |-> 0, CmdCount |-> 0, APM |-> 0,
     EffectiveCmdCount |-> 0, EAPM |-> 0, StartLocation |-> <<>>, StartDirection |-> 0]

\* &Computed{...} and its PlayerDescs, one per player in the order of Header.Players
NewComputed(h) ==
    [LeaveGameCmds |-> <<>>, ChatCmds |-> <<>>, WinnerTeam |-> 0, RepSaverPlayerID |-> <<>>,
     PlayerDescs |-> [i \in 1..Len(h.Players) |-> NewPlayerDesc(PlayerAt(h, i).ID)]]

\* PIDPlayerDescs[pid] as an index of PlayerDescs: the last player with that
\* ID is the one the map keeps; 0 if there is none
PIDPlayerDesc(h, pid) ==
    LET is == {i \in 1..Len(h.Players) : PlayerAt(h, i).ID = pid}
    IN  IF is = {} THEN 0 ELSE CHOOSE i \in is : \A j \in is : j <= i

\* The first loop over the commands: st holds c (the Computed), cmds (the
\* commands with IneffKind set so far), own (pidCmdsWrappers: the commands of
\* each player ID) and pidBuilds
RECURSIVE cmdLoop(_, _, _)

cmdLoopStep(h, k, st, cmd, i, own) ==
    LET kind == CmdIneffKind(own, Len(own) - 1)
        st1 == IF i = 0 THEN st
               ELSE [st EXCEPT !.c.PlayerDescs[i].CmdCount = @ + 1,
                               !.c.PlayerDescs[i].EffectiveCmdCount =
                                   IF kind = IneffKindEffective THEN @ + 1 ELSE @,
                               !.own = MapPut(@, cmd.PlayerID, own),
                               !.cmds[k].IneffKind = kind]
    IN  cmdLoop(h, k + 1,
                CASE cmd.Struct = "LeaveGameCmd" ->
                       [st1 EXCEPT !.c.LeaveGameCmds = Append(@, st1.cmds[k])]
                  [] cmd.Struct = "ChatCmd" ->
                       [st1 EXCEPT !.c.ChatCmds = Append(@, st1.cmds[k])]
                  [] cmd.Struct = "BuildCmd" ->
                       [st1 EXCEPT !.pidBuilds =
                                       MapPut(@, cmd.PlayerID, MapGet(@, cmd.PlayerID) + 1)]
                  [] OTHER -> st1)

cmdLoop(h, k, st) ==
    IF k > Len(st.cmds) THEN st
    ELSE cmdLoopStep(h, k, st, st.cmds[k], PIDPlayerDesc(h, st.cmds[k].PlayerID),
                     (IF st.cmds[k].PlayerID \in DOMAIN st.own
                      THEN st.own[st.cmds[k].PlayerID] ELSE <<>>) \o <<st.cmds[k]>>)

\* The search for the last commands that takes any frame
RECURSIVE lastCmdLoopAny(_, _, _, _, _)
lastCmdLoopAny(h, cmds, i, pds, pending) ==
    IF i < 0 THEN pds
    ELSE IF cmds[i + 1].PlayerID \notin pending THEN
        lastCmdLoopAny(h, cmds, i - 1, pds, pending)
    ELSE IF Cardinality(pending) = 1 THEN
        [pds EXCEPT ![PIDPlayerDesc(h, cmds[i + 1].PlayerID)].LastCmdFrame = cmds[i + 1].Frame]
    ELSE lastCmdLoopAny(h, cmds, i - 1,
                        [pds EXCEPT ![PIDPlayerDesc(h, cmds[i + 1].PlayerID)].LastCmdFrame =
                                        cmds[i + 1].Frame],
                        pending \ {cmds[i + 1].PlayerID})

\* The search for the last commands, from the last command backwards:
\* pending is the set of keys of pidPlayerDescs
RECURSIVE lastCmdLoop(_, _, _, _, _)
lastCmdLoop(h, cmds, i, pds, pending) ==
    IF i < 0 THEN pds
    ELSE IF cmds[i + 1].PlayerID \notin pending THEN lastCmdLoop(h, cmds, i - 1, pds, pending)
    ELSE IF cmds[i + 1].Frame > h.Frames \/ cmds[i + 1].Frame < 0 THEN
        lastCmdLoop(h, cmds, i - 1, pds, pending)
    ELSE IF Cardinality(pending) = 1 THEN
        [pds EXCEPT ![PIDPlayerDesc(h, cmds[i + 1].PlayerID)].LastCmdFrame = cmds[i + 1].Frame]
    ELSE lastCmdLoop(h, cmds, i - 1,
                     [pds EXCEPT ![PIDPlayerDesc(h, cmds[i + 1].PlayerID)].LastCmdFrame =
                                     cmds[i + 1].Frame],
                     pending \ {cmds[i + 1].PlayerID})

\* int32(float64(count)/mins + 0.5), mins the minutes of lastCmdFrame > 0
\* frames of 42 ms: count * 60000 / (42 * f) + 1/2, rounded down
apmOf(count, lastCmdFrame) ==
    (count * 120000 + 42 * lastCmdFrame) \div (84 * lastCmdFrame)

\* The calculation of APMs and EAPMs
withAPMs(pds) ==
    [i \in 1..Len(pds) |->
        IF pds[i].LastCmdFrame = 0 THEN pds[i]
        ELSE [pds[i] EXCEPT !.APM = apmOf(pds[i].CmdCount, pds[i].LastCmdFrame),
                            !.EAPM = apmOf(pds[i].EffectiveCmdCount, pds[i].LastCmdFrame)]]

obsProfileMelee == [apmLimit |-> 25, buildCmdsLimit |-> 5, earlyLeaveFrame |-> 0,
                    computer |-> FALSE]

obsProfileUMSAI == [apmLimit |-> 40, buildCmdsLimit |-> 2,
                    earlyLeaveFrame |-> Duration2Frame(18000), computer |-> TRUE]

\* detectObservers that does not undo
detectObserversKept(h, pds, pidBuilds, obsProf) ==
    LET isObs(i) ==
            \/ /\ PlayerAt(h, i).Type = PlayerTypeHuman
               /\ \/ /\ pds[i].APM < obsProf.apmLimit
                     /\ MapGet(pidBuilds, PlayerAt(h, i).ID) < obsProf.buildCmdsLimit
                  \/ /\ obsProf.earlyLeaveFrame > 0
                     /\ pds[i].LastCmdFrame < obsProf.earlyLeaveFrame
            \/ obsProf.computer /\ PlayerAt(h, i).Type = PlayerTypeComputer
        obs == {h.Players[i] : i \in {j \in 1..Len(h.Players) : isObs(j)}}
    IN  [h EXCEPT !.Slots =
            [x \in 1..Len(h.Slots) |->
                IF x \in obs THEN [h.Slots[x] EXCEPT !.Observer = TRUE] ELSE h.Slots[x]]]

\* detectObservers: the header with the Observer flags set
detectObservers(h, pds, pidBuilds, obsProf) ==
    LET isObs(i) ==
            \/ /\ PlayerAt(h, i).Type = PlayerTypeHuman
               /\ \/ /\ pds[i].APM < obsProf.apmLimit
                     /\ MapGet(pidBuilds, PlayerAt(h, i).ID) < obsProf.buildCmdsLimit
                  \/ /\ obsProf.earlyLeaveFrame > 0
                     /\ pds[i].LastCmdFrame < obsProf.earlyLeaveFrame
            \/ obsProf.computer /\ PlayerAt(h, i).Type = PlayerTypeComputer
        obs == {h.Players[i] : i \in {j \in 1..Len(h.Players) : isObs(j)}}
        numObs == Cardinality({j \in 1..Len(h.Players) : isObs(j)})
    IN  [h EXCEPT !.Slots =
            [x \in 1..Len(h.Slots) |->
                IF x \notin Elems(h.Players) THEN h.Slots[x]
                ELSE IF Len(h.Players) - numObs < 2 THEN [h.Slots[x] EXCEPT !.Observer = FALSE]
                ELSE IF x \in obs THEN [h.Slots[x] EXCEPT !.Observer = TRUE]
                ELSE h.Slots[x]]]

\* The positions 1..n in the order sort.SliceStable gives them by team
teamOrder(h) ==
    sortByTeam([k \in 1..Len(h.Players) |-> [Team |-> PlayerAt(h, k).Team]],
               [k \in 1..Len(h.Players) |-> k])

\* rearrangePlayers: Header.Players and Computed.PlayerDescs in team order
rearrangeBy(rep, order) ==
    [rep EXCEPT !.Header[1].Players = [k \in 1..Len(order) |-> @[order[k]]],
                !.Computed[1].PlayerDescs = [k \in 1..Len(order) |-> @[order[k]]]]

\* rearrangePlayers that leaves Computed.PlayerDescs as it is
rearrangePlayersAlone(rep) ==
    [rep EXCEPT !.Header[1].Players =
        [k \in 1..Len(@) |-> @[teamOrder(rep.Header[1])[k]]]]

rearrangePlayers(rep) == rearrangeBy(rep, teamOrder(rep.Header[1]))

\* Do the players that are no observers all have the same team?
sameTeams(h) ==
    \A i, j \in 1..Len(h.Players) :
        ~PlayerAt(h, i).Observer /\ ~PlayerAt(h, j).Observer
            => PlayerAt(h, i).Team = PlayerAt(h, j).Team

\* byte(p.SlotID)
slotByte(p) == p.SlotID % 256

\* The positions in Header.Players of the players that are no observers
nonObservers(h) == {i \in 1..Len(h.Players) : ~PlayerAt(h, i).Observer}

\* The greatest number of a set that is not empty
Max(S) == CHOOSE i \in S : \A j \in S : j <= i

\* pidSlotIDs at first: each player that is no observer allied to itself
\* (of two players with one ID the later one stays)
selfAlliances(h) ==
    [pid \in {PlayerAt(h, i).ID : i \in nonObservers(h)} |->
        <<slotByte(PlayerAt(h, Max({i \in nonObservers(h) : PlayerAt(h, i).ID = pid})))>>]

\* slotIDPlayers: slot ID -> the player (its slot index) that is no observer
slotIDPlayersOf(h) ==
    [sl \in {slotByte(PlayerAt(h, i)) : i \in nonObservers(h)} |->
        h.Players[Max({i \in nonObservers(h) : slotByte(PlayerAt(h, i)) = sl})]]

\* Is the player with this ID known and an observer?
pidObserver(h, pid) == pid \in DOMAIN h.PIDPlayers /\ h.Slots[h.PIDPlayers[pid]].Observer

\* The loop over the commands of computeMeleeTeams: the last Alliance
\* command of each player up to frameLimit
RECURSIVE meleeAlliances(_, _, _, _, _)
meleeAlliances(h, cmds, k, frameLimit, pidSlotIDs) ==
    IF k > Len(cmds) THEN pidSlotIDs
    ELSE IF cmds[k].Frame > frameLimit THEN pidSlotIDs
    ELSE meleeAlliances(h, cmds, k + 1, frameLimit,
             IF cmds[k].Struct = "AllianceCmd" /\ ~pidObserver(h, cmds[k].PlayerID)
             THEN MapPut(pidSlotIDs, cmds[k].PlayerID, cmds[k].f.SlotIDs)
             ELSE pidSlotIDs)

\* slotIDSlotIDs: the allied slots by the slot ID of the player.  The
\* players here have slot IDs of their own, so no two keys of pidSlotIDs
\* meet in one entry.
slotIDSlotIDsOf(h, pidSlotIDs) ==
    LET pids == {pid \in DOMAIN pidSlotIDs : pid \in DOMAIN h.PIDPlayers}
    IN  [sl \in {slotByte(h.Slots[h.PIDPlayers[pid]]) : pid \in pids} |->
            pidSlotIDs[CHOOSE pid \in pids : slotByte(h.Slots[h.PIDPlayers[pid]]) = sl]]

\* For each A => B alliance there is a B => A
alliancesConsistent(h, pidSlotIDs, slotIDPlayers, slotIDSlotIDs) ==
    \A pid \in DOMAIN pidSlotIDs :
        pid \in DOMAIN h.PIDPlayers =>
            \A slotIDB \in Elems(pidSlotIDs[pid]) :
                LET slotIDA == slotByte(h.Slots[h.PIDPlayers[pid]]) IN
                \/ slotIDA = slotIDB
                \/ slotIDB \notin DOMAIN slotIDPlayers
                \/ /\ slotIDB \in DOMAIN slotIDSlotIDs
                   /\ slotIDA \in Elems(slotIDSlotIDs[slotIDB])

\* The loop that gives each player a team of its own
RECURSIVE meleeAssignAlone(_, _, _, _, _, _)
meleeAssignAlone(h, i, team, slots, pidSlotIDs, slotIDPlayers) ==
    IF i > Len(h.Players) THEN [slots |-> slots, team |-> team]
    ELSE IF slots[h.Players[i]].Observer THEN
        meleeAssignAlone(h, i + 1, team, slots, pidSlotIDs, slotIDPlayers)
    ELSE meleeAssignAlone(h, i + 1, (team + 1) % 256,
                          [slots EXCEPT ![h.Players[i]].Team = team],
                          pidSlotIDs, slotIDPlayers)

\* The loop that assigns the new teams: slots with the teams given so far
RECURSIVE meleeAssign(_, _, _, _, _, _)
meleeAssign(h, i, team, slots, pidSlotIDs, slotIDPlayers) ==
    IF i > Len(h.Players) THEN [slots |-> slots, team |-> team]
    ELSE IF slots[h.Players[i]].Observer \/ slots[h.Players[i]].Team # 0 THEN
        meleeAssign(h, i + 1, team, slots, pidSlotIDs, slotIDPlayers)
    ELSE
        LET p == slots[h.Players[i]]
            mates == IF p.Type # PlayerTypeComputer /\ p.ID \in DOMAIN pidSlotIDs
                     THEN {slotIDPlayers[sl] :
                             sl \in Elems(pidSlotIDs[p.ID]) \cap DOMAIN slotIDPlayers}
                     ELSE {}
        IN  meleeAssign(h, i + 1, (team + 1) % 256,
                        [x \in 1..Len(slots) |->
                            IF x = h.Players[i] \/ x \in mates
                            THEN [slots[x] EXCEPT !.Team = team] ELSE slots[x]],
                        pidSlotIDs, slotIDPlayers)

\* The end of computeMeleeTeams, the alliances being consistent
meleeTeams(rep, h, pidSlotIDs, slotIDPlayers) ==
    LET clean == [x \in 1..Len(h.Slots) |->
                    IF x \in Elems(h.Players) THEN [h.Slots[x] EXCEPT !.Team = 0]
                    ELSE h.Slots[x]]
        as == meleeAssign(h, 1, 1, clean, pidSlotIDs, slotIDPlayers)
    IN  rearrangePlayers(
            [rep EXCEPT !.Header[1].Slots =
                [x \in 1..Len(h.Slots) |->
                    IF x \in Elems(h.Players) /\ as.slots[x].Observer
                    THEN [as.slots[x] EXCEPT !.Team = as.team] ELSE as.slots[x]]])

computeMeleeTeamsWith(rep, h, pidSlotIDs, slotIDPlayers) ==
    IF alliancesConsistent(h, pidSlotIDs, slotIDPlayers, slotIDSlotIDsOf(h, pidSlotIDs))
    THEN meleeTeams(rep, h, pidSlotIDs, slotIDPlayers)
    ELSE rep

computeMeleeTeams(rep) ==
    IF rep.Commands = <<>> THEN rep
    ELSE IF Len(rep.Header[1].Players) < 2 THEN rep
    ELSE IF ~sameTeams(rep.Header[1]) THEN rep
    ELSE computeMeleeTeamsWith(rep, rep.Header[1],
             meleeAlliances(rep.Header[1], rep.Commands[1].Cmds, 1, Duration2Frame(90000),
                            selfAlliances(rep.Header[1])),
             slotIDPlayersOf(rep.Header[1]))

\* computeUMSTeams: the 1v1 with observers, told by who trains and builds
computeUMSTeams(rep) ==
    LET h == rep.Header[1]
        n == Len(h.Players)
        playerCandidateIDs == {PlayerAt(h, i).ID : i \in 1..min(2, n)}
        obsCandidateIDs == {PlayerAt(h, i).ID : i \in 3..n}
        trainBuild == {k \in 1..Len(rep.Commands[1].Cmds) :
                          rep.Commands[1].Cmds[k].Struct \in {"TrainCmd", "BuildCmd"}}
        pidOf(k) == rep.Commands[1].Cmds[k].PlayerID
    IN  IF rep.Commands = <<>> THEN rep
        ELSE IF n < 2 THEN rep
        ELSE IF \E i \in 1..n :
                    \/ PlayerAt(h, i).Type # PlayerTypeHuman
                    \/ i <= 2 /\ PlayerAt(h, i).Team # 1
                    \/ i > 2 /\ PlayerAt(h, i).Team = 1
        THEN rep
        ELSE IF \E k \in trainBuild :
                    pidOf(k) \notin playerCandidateIDs /\ pidOf(k) \in obsCandidateIDs
        THEN rep
        ELSE IF \A k \in trainBuild : pidOf(k) \notin playerCandidateIDs THEN rep
        ELSE [rep EXCEPT !.Header[1].Slots =
                 [x \in 1..Len(h.Slots) |->
                     IF x = h.Players[1] THEN [h.Slots[x] EXCEPT !.Team = 1]
                     ELSE IF x = h.Players[2] THEN [h.Slots[x] EXCEPT !.Team = 2]
                     ELSE IF x \in Elems(h.Players)
                     THEN [h.Slots[x] EXCEPT !.Team = 3, !.Observer = TRUE]
                     ELSE h.Slots[x]]]

\* The slot IDs of a list that belong to players that are no observers
filterOutObserverSlotIDs(h, slotIDs) ==
    LET playerSlot(sl) == sl \in {slotByte(PlayerAt(h, i)) : i \in nonObservers(h)}
    IN  SelectSeq(slotIDs, playerSlot)

\* The loop over the commands of computeUMSTeamsAI
RECURSIVE aiAlliances(_, _, _, _)
aiAlliances(h, cmds, k, pidSlotIDs) ==
    IF k > Len(cmds) THEN pidSlotIDs
    ELSE IF cmds[k].Frame > Duration2Frame(115000) THEN pidSlotIDs
    ELSE aiAlliances(h, cmds, k + 1,
             IF /\ cmds[k].Struct = "AllianceCmd"
                /\ ~pidObserver(h, cmds[k].PlayerID)
                /\ ~ /\ Len(filterOutObserverSlotIDs(h, cmds[k].f.SlotIDs)) = 1
                     /\ cmds[k].Frame < Duration2Frame(18000)
             THEN MapPut(pidSlotIDs, cmds[k].PlayerID,
                         filterOutObserverSlotIDs(h, cmds[k].f.SlotIDs))
             ELSE pidSlotIDs)

\* The end of computeUMSTeamsAI: teams is the set of the allied lists that
\* are not empty (virtualTeamIDSlotIDs)
aiTeams(rep, h, teams) ==
    LET team1 == CHOOSE t \in teams : \A u \in teams : t[1] <= u[1]
        team2 == CHOOSE t \in teams : t # team1
        slotIDTeams == [sl \in Elems(team1) \cup Elems(team2) |->
                           IF sl \in Elems(team2) THEN 2 ELSE 1]
    IN  IF Cardinality(teams) # 2 THEN rep
        ELSE IF Elems(team1) \cap Elems(team2) # {} THEN rep
        ELSE IF Cardinality({slotByte(PlayerAt(h, i)) : i \in nonObservers(h)})
                    # Cardinality(DOMAIN slotIDTeams) THEN rep
        ELSE rearrangePlayers(
                 [rep EXCEPT !.Header[1].Slots =
                     [x \in 1..Len(h.Slots) |->
                         IF x \notin Elems(h.Players) THEN h.Slots[x]
                         ELSE IF h.Slots[x].Observer THEN [h.Slots[x] EXCEPT !.Team = 3]
                         ELSE [h.Slots[x] EXCEPT
                                  !.Team = MapGet(slotIDTeams, slotByte(h.Slots[x]))]]])

computeUMSTeamsAIWith(rep, h, pidSlotIDs) ==
    aiTeams(rep, h, {pidSlotIDs[pid] : pid \in DOMAIN pidSlotIDs} \ {<<>>})

computeUMSTeamsAI(rep) ==
    IF rep.Commands = <<>> THEN rep
    ELSE IF Len(rep.Header[1].Players) < 2 THEN rep
    ELSE IF ~sameTeams(rep.Header[1]) THEN rep
    ELSE computeUMSTeamsAIWith(rep, rep.Header[1],
             aiAlliances(rep.Header[1], rep.Commands[1].Cmds, 1,
                 IF Cardinality({slotByte(PlayerAt(rep.Header[1], i)) :
                                    i \in nonObservers(rep.Header[1])}) = 2
                 THEN selfAlliances(rep.Header[1]) ELSE EmptyMap))

\* The least number of a set that is not empty
Min(S) == CHOOSE i \in S : \A j \in S : i <= j

\* teamSizes after the leave game commands: leaves holds the player IDs of
\* the leave game commands that count, in their order
teamSizesOf(h, leaves) ==
    LET humans == {i \in nonObservers(h) : PlayerAt(h, i).Type # PlayerTypeComputer}
        teamOf(k) == h.Slots[h.PIDPlayers[leaves[k]]].Team
    IN  [t \in {PlayerAt(h, i).Team : i \in humans} \cup {teamOf(k) : k \in 1..Len(leaves)} |->
            Cardinality({i \in humans : PlayerAt(h, i).Team = t})
                - Cardinality({k \in 1..Len(leaves) : teamOf(k) = t})]

\* The end of computeWinners: the largest remaining team wins; if there is
\* no single one and everybody left, the team of the last leaver wins
winnersFrom(rep, h, leaves, teamSizes, maxSize) ==
    IF Cardinality(DOMAIN teamSizes) < 2 \/ Len(leaves) = 0 THEN rep
    ELSE IF maxSize > 0 /\ Cardinality({t \in DOMAIN teamSizes : teamSizes[t] = maxSize}) = 1
    THEN [rep EXCEPT !.Computed[1].WinnerTeam =
             CHOOSE t \in DOMAIN teamSizes : teamSizes[t] = maxSize]
    ELSE IF Len(leaves) = Cardinality(nonObservers(h))
    THEN [rep EXCEPT !.Computed[1].WinnerTeam =
             h.Slots[h.PIDPlayers[leaves[Len(leaves)]]].Team]
    ELSE rep

winnersWith(rep, h, leaves, teamSizes) ==
    winnersFrom(rep, h, leaves, teamSizes,
                Max({teamSizes[t] : t \in DOMAIN teamSizes} \cup {-1}))

\* The leave game commands of the players that are no observers, and the
\* "simulated" one of the replay saver after them
leaveGameCmdsOf(h, c) ==
    LET counts(pid) == pid \in DOMAIN h.PIDPlayers /\ ~h.Slots[h.PIDPlayers[pid]].Observer
        known(cmd) == counts(cmd.PlayerID)
        own == SelectSeq(c.LeaveGameCmds, known)
    IN  [k \in 1..Len(own) |-> own[k].PlayerID]
        \o (IF c.RepSaverPlayerID # <<>> /\ counts(c.RepSaverPlayerID[1])
            THEN <<h.Slots[h.PIDPlayers[c.RepSaverPlayerID[1]]].ID>> ELSE <<>>)

computeWinnersWith(rep, h, leaves) == winnersWith(rep, h, leaves, teamSizesOf(h, leaves))

\* computeWinners without its return on a team of computers only
computeWinnersAll(rep) ==
    computeWinnersWith(rep, rep.Header[1],
                       leaveGameCmdsOf(rep.Header[1], rep.Computed[1]))

computeWinners(rep) ==
    IF \E i \in nonObservers(rep.Header[1]) :
           /\ PlayerAt(rep.Header[1], i).Type = PlayerTypeComputer
           /\ \A j \in nonObservers(rep.Header[1]) :
                  PlayerAt(rep.Header[1], j).Team = PlayerAt(rep.Header[1], i).Team
                      => PlayerAt(rep.Header[1], j).Type = PlayerTypeComputer
    THEN rep
    ELSE computeWinnersWith(rep, rep.Header[1],
                            leaveGameCmdsOf(rep.Header[1], rep.Computed[1]))

\* angleToClock(math.Atan2(y, x)) for whole x and y, without the floating
\* point: the quarter of the plane gives three hours, and the tangents of
\* 15, 45 and 75 degrees (2 - sqrt 3, 1, 2 + sqrt 3) give the hour in it.  a
\* and b are the coordinates turned into the first quarter.  (On the exact
\* 45 degree lines the hour of the source hangs on the rounding of the
\* floating point division; here the line belongs to the hour before it
\* clockwise, as it does in exact arithmetic.)
hourInQuarter(a, b) ==
    (IF 2 * a - b < 0 \/ 3 * a * a > (2 * a - b) * (2 * a - b) THEN 1 ELSE 0)
    + (IF b > a THEN 1 ELSE 0)
    + (IF 2 * b - a > 0 /\ 3 * b * b < (2 * b - a) * (2 * b - a) THEN 1 ELSE 0)

clockOf(k) == IF (15 - k) % 12 = 0 THEN 12 ELSE (15 - k) % 12

angleToClock(y, x) ==
    IF x = 0 /\ y = 0 THEN 3
    ELSE IF x > 0 /\ y >= 0 THEN clockOf(hourInQuarter(x, y))
    ELSE IF x <= 0 /\ y > 0 THEN clockOf(3 + hourInQuarter(y, -x))
    ELSE IF x < 0 /\ y <= 0 THEN clockOf(6 + hourInQuarter(-x, -y))
    ELSE clockOf(9 + hourInQuarter(-y, x))

\* The lookup of the start locations of the players
startLocationOf(h, sls, pd, p) ==
    LET js == {j \in 1..Len(sls) : p.SlotID = sls[j].SlotID} IN
    IF js = {} THEN pd
    ELSE [pd EXCEPT !.StartLocation = <<[X |-> sls[Min(js)].X, Y |-> sls[Min(js)].Y]>>,
                    !.StartDirection =
                        angleToClock(((h.MapHeight * 16) % 65536) - sls[Min(js)].Y,
                                     sls[Min(js)].X - ((h.MapWidth * 16) % 65536))]

withStartLocations(rep) ==
    IF rep.MapData = <<>> THEN rep
    ELSE [rep EXCEPT !.Computed[1].PlayerDescs =
             [i \in 1..Len(@) |->
                 startLocationOf(rep.Header[1], rep.MapData[1].StartLocations, @[i],
                                 PlayerAt(rep.Header[1], i))]]

\* stringsx.Clean and strings.ToLower of a name of ASCII bytes: the bytes
\* that are no graphic characters go, the capitals become small letters
Clean(name) == LET graphic(b) == b >= 32 /\ b # 127 IN SelectSeq(name, graphic)

ToLower(name) == [i \in 1..Len(name) |-> IF name[i] \in 65..90 THEN name[i] + 32 ELSE name[i]]

Contains(name, sub) ==
    \E i \in 0..(Len(name) - Len(sub)) : Slice(name, i, i + Len(sub)) = sub

HasPrefix(name, pre) == Len(name) >= Len(pre) /\ Slice(name, 0, Len(pre)) = pre

\* The names of the maps that make random teams after the start: "  hunters
\* kespa soulclan ai", ":da hunters ai", "(xb2) big game hunters", the prefix
\* "wang pai lie ren" in Chinese (UTF-8), and the names holding "[ai]",
\* "ai hunters" or "bgh random teams"
isAIMap(mapName) ==
    \/ mapName = <<32, 32, 104, 117, 110, 116, 101, 114, 115, 32, 107, 101, 115, 112, 97, 32,
                   115, 111, 117, 108, 99, 108, 97, 110, 32, 97, 105>>
    \/ mapName = <<58, 100, 97, 32, 104, 117, 110, 116, 101, 114, 115, 32, 97, 105>>
    \/ mapName = <<40, 120, 98, 50, 41, 32, 98, 105, 103, 32, 103, 97, 109, 101, 32, 104,
                   117, 110, 116, 101, 114, 115>>
    \/ HasPrefix(mapName, <<231, 142, 139, 231, 137, 140, 231, 140, 142, 228, 186, 186>>)
    \/ Contains(mapName, <<91, 97, 105, 93>>)
    \/ Contains(mapName, <<97, 105, 32, 104, 117, 110, 116, 101, 114, 115>>)
    \/ Contains(mapName, <<98, 103, 104, 32, 114, 97, 110, 100, 111, 109, 32, 116, 101, 97,
                           109, 115>>)

\* r.detectObservers(pidBuilds, obsProf) on the replay
withObservers(rep, pidBuilds, obsProf) ==
    [rep EXCEPT !.Header[1] =
        detectObservers(@, rep.Computed[1].PlayerDescs, pidBuilds, obsProf)]

\* The switch on Header.Type of Compute
computeTeams(rep, pidBuilds) ==
    IF rep.Header[1].Type = GameTypeUMS THEN
        IF isAIMap(ToLower(Clean(IF rep.MapData # <<>> THEN rep.MapData[1].Name
                                 ELSE rep.Header[1].Map)))
        THEN computeUMSTeamsAI(withObservers(rep, pidBuilds, obsProfileUMSAI))
        ELSE computeUMSTeams(rep)
    ELSE IF rep.Header[1].Type = GameTypeMelee THEN
        computeMeleeTeams(withObservers(rep, pidBuilds, obsProfileMelee))
    ELSE rep

\* The keys of pidPlayerDescs: the IDs of the players that have commands
pendingOf(h, pds) ==
    {PlayerAt(h, i).ID : i \in {j \in 1..Len(h.Players) :
                                    pds[PIDPlayerDesc(h, PlayerAt(h, j).ID)].CmdCount > 0}}

\* Compute after the first loop over the commands, st being what it left
computeCmds(rep, h, st) ==
    computeWinners(computeTeams(
        [rep EXCEPT
            !.Commands[1].Cmds = st.cmds,
            !.Computed =
                <<[st.c EXCEPT
                      !.RepSaverPlayerID =
                          IF st.c.ChatCmds # <<>> THEN <<st.c.ChatCmds[1].PlayerID>> ELSE <<>>,
                      !.PlayerDescs =
                          withAPMs(lastCmdLoop(h, st.cmds, Len(st.cmds) - 1, @,
                                               pendingOf(h, @)))]>>],
        st.pidBuilds))

\* Compute from the new Computed c on
computeWith(rep, c) ==
    withStartLocations(
        IF rep.Commands = <<>> THEN [rep EXCEPT !.Computed = <<c>>]
        ELSE computeCmds(rep, rep.Header[1],
                         cmdLoop(rep.Header[1], 1,
                                 [c |-> c, cmds |-> rep.Commands[1].Cmds,
                                  own |-> EmptyMap, pidBuilds |-> EmptyMap])))

\* Compute without the return at its start: it goes on with the Computed
\* that is there
ComputeAgain(rep) ==
    computeWith(rep, IF rep.Computed # <<>> THEN rep.Computed[1]
                     ELSE NewComputed(rep.Header[1]))

\* Replay.Compute on a replay that has a header
Compute(rep) ==
    IF rep.Computed # <<>> THEN rep ELSE computeWith(rep, NewComputed(rep.Header[1]))

\* A call of Compute by the user of the library on the replay that
\* ParseConfig returned without an error; r.Header.Players of a replay
\* without a header is a nil pointer dereference that nothing recovers
CallCompute ==
    /\ pc \in {"Returned", "Computed"}
    /\ ~ret.nil
    /\ IF r.Header = <<>> /\ r.Computed = <<>> THEN
           /\ crashed' = TRUE
           /\ pc' = "Crashed"
           /\ r' = r
       ELSE
           /\ r' = Compute(r)
           /\ pc' = IF pc = "Returned" THEN "Computed" ELSE "Computed2"
           /\ crashed' = crashed
    /\ UNCHANGED <<callVars, esiVars, repData, cfg, decVars, loopVars, srVars, ret, panicked, secLog, hist>>


---------------------------------------------------------------------------
(* Functions of the library that the parser and Compute do not call, or    *)
(* call on inputs of their own.  A caller calls them one at a time: call   *)
(* holds the function, its argument and, once it has returned, its result. *)

\* UnitTag.Index
Index(ut) == ut % 2048

\* UnitTag.Recycle
Recycle(ut) == (ut \div 4096) % 256

\* UnitTag.Valid
Valid(ut) == ut # 65535

\* a / b and a % b of Go, which truncate towards zero
Quo(a, b) == IF a >= 0 THEN a \div b ELSE -((-a) \div b)
Rem(a, b) == a - b * Quo(a, b)

\* Frame.Milliseconds
Milliseconds(f) == f * 42

\* Strings are sequences of characters.  The decimal digits of n >= 0:
Digit(n) == <<"0", "1", "2", "3", "4", "5", "6", "7", "8", "9">>[n + 1]

RECURSIVE Digits(_)
Digits(n) == IF n < 10 THEN <<Digit(n)>> ELSE Digits(n \div 10) \o <<Digit(n % 10)>>

\* fmt.Sprintf("%d", n)
FormatD(n) == IF n < 0 THEN <<"-">> \o Digits(-n) ELSE Digits(n)

\* fmt.Sprintf("%02d", n): padded with zeros to the width 2, the sign counts
FormatD02(n) == IF n >= 0 /\ n < 10 THEN <<"0">> \o Digits(n) ELSE FormatD(n)

\* Frame.String without the form of an hour and more
FrameStringShort(sec, mn) == FormatD02(mn) \o <<":">> \o FormatD02(Rem(sec, 60))

\* Frame.String
FrameStringOf(sec, mn) ==
    IF mn < 60 THEN FormatD02(mn) \o <<":">> \o FormatD02(Rem(sec, 60))
    ELSE FormatD(Quo(mn, 60)) \o <<":">> \o FormatD02(Rem(mn, 60))
             \o <<":">> \o FormatD02(Rem(sec, 60))

FrameString(f) ==
    FrameStringOf(Quo(Milliseconds(f), 1000), Quo(Quo(Milliseconds(f), 1000), 60))

\* Angles are whole multiples of pi/156, so that the hour (pi/6), the half
\* hour and pi/13 are whole numbers.  oneHour is math.Pi / 6.
oneHour == 26

Pi == 6 * oneHour

RECURSIVE angleUp(_)
angleUp(angle) == IF angle < 0 THEN angleUp(angle + oneHour * 12) ELSE angle

RECURSIVE angleDown(_)
angleDown(angle) == IF angle >= oneHour * 12 THEN angleDown(angle - oneHour * 12) ELSE angle

\* int32(angle / oneHour) of an angle in 0..2*pi, 0 being 12 o'clock
hourOf(angle) == IF angle \div oneHour = 0 THEN 12 ELSE angle \div oneHour

\* angleToClock with a shift of 3 hours
angleToClockPlain(angle) == hourOf(angleDown(angleUp(-angle + oneHour * 3)))

\* angleToClock(angle) for an angle given as such: the shift by 3:30 and the
\* turn of the direction, the two loops, the hour.  (The source computes in
\* float64; here the arithmetic is exact, so an angle that lies exactly
\* between two hours falls to the later angle's hour.)
angleToClockOf(angle) == hourOf(angleDown(angleUp(-angle + (oneHour * 7) \div 2)))

\* The calls a caller can make
CallUnitTag ==
    /\ pc = "Call" /\ call.fn = "UnitTag"
    /\ call' = [call EXCEPT !.result = <<[Index |-> Index(call.arg),
                                          Recycle |-> Recycle(call.arg),
                                          Valid |-> Valid(call.arg)]>>]
    /\ pc' = "Called"
    /\ UNCHANGED <<other, esiVars, repData, cfg, decVars, loopVars, r, retVars, secLog,
                   srVars, hist>>

CallFrameString ==
    /\ pc = "Call" /\ call.fn = "Frame.String"
    /\ call' = [call EXCEPT !.result = <<FrameString(call.arg)>>]
    /\ pc' = "Called"
    /\ UNCHANGED <<other, esiVars, repData, cfg, decVars, loopVars, r, retVars, secLog,
                   srVars, hist>>

CallAngleToClock ==
    /\ pc = "Call" /\ call.fn = "angleToClock"
    /\ call' = [call EXCEPT !.result = <<angleToClockOf(call.arg)>>]
    /\ pc' = "Called"
    /\ UNCHANGED <<other, esiVars, repData, cfg, decVars, loopVars, r, retVars, secLog,
                   srVars, hist>>

CallDetectObservers ==
    /\ pc = "Call" /\ call.fn = "detectObservers"
    /\ call' = [call EXCEPT !.result = <<detectObservers(call.arg.h, call.arg.pds,
                                                         call.arg.pidBuilds,
                                                         call.arg.obsProf)>>]
    /\ pc' = "Called"
    /\ UNCHANGED <<other, esiVars, repData, cfg, decVars, loopVars, r, retVars, secLog,
                   srVars, hist>>

CallRepSection ==
    /\ pc = "Call" /\ call.fn = "repSection"
    /\ call' = [call EXCEPT !.result = <<repSection(ZeroEsi, call.arg.src)>>]
    /\ pc' = "Called"
    /\ UNCHANGED <<other, esiVars, repData, cfg, decVars, loopVars, r, retVars, secLog,
                   srVars, hist>>

CallLegacySection ==
    /\ pc = "Call" /\ call.fn = "legacyDecoder.Section"
    /\ call' = [call EXCEPT !.result =
                    <<legacySection(NilEsi, ZeroEsi, call.arg.b, 0, call.arg.size)>>]
    /\ pc' = "Called"
    /\ UNCHANGED <<other, esiVars, repData, cfg, decVars, loopVars, r, retVars, secLog,
                   srVars, hist>>

CallComputeWinners ==
    /\ pc = "Call" /\ call.fn = "computeWinners"
    /\ call' = [call EXCEPT !.result = <<computeWinners(call.arg.rep).Computed[1]>>]
    /\ pc' = "Called"
    /\ UNCHANGED <<other, esiVars, repData, cfg, decVars, loopVars, r, retVars, secLog,
                   srVars, hist>>

CallCmdIneffKind ==
    /\ pc = "Call" /\ call.fn = "CmdIneffKind"
    /\ call' = [call EXCEPT !.result = <<CmdIneffKind(call.arg.cmds, call.arg.i)>>]
    /\ pc' = "Called"
    /\ UNCHANGED <<other, esiVars, repData, cfg, decVars, loopVars, r, retVars, secLog,
                   srVars, hist>>

---------------------------------------------------------------------------
(* Compressed legacy chunks.  The compressor of the game is PKWARE's       *)
(* implode in its binary mode: a chunk is the byte 0, the dictionary bits  *)
(* (4 to 6), and a stream of bits, the low bit of each byte first, of      *)
(* literals (0, then the 8 bits of the byte), matches (1, the code of the  *)
(* length and its extra bits, the code of the high bits of the distance    *)
(* and its low bits) and the end (1 and the length code 15 with the extra  *)
(* bits 255).  What is compressed is given as the tokens of the stream.    *)

Lit(b) == [lit |-> TRUE, byte |-> b]

Match(len, dist) == [lit |-> FALSE, len |-> len, dist |-> dist]

\* The n low bits of v, the lowest first
PutBits(v, n) == [i \in 1..n |-> (v \div (2^(i - 1))) % 2]

\* The first length of the length code n (less 2)
LengthBase(n) == At(off5071B0, 2 * n) + 256 * At(off5071B0, 2 * n + 1)

\* The length code of a length of 2 to 518
LengthCode(len) ==
    CHOOSE n \in 0..15 :
        LengthBase(n) <= len - 2 /\ len - 2 < LengthBase(n) + 2^At(off5071A0, n)

\* The bits of a length code n with the extra bits x
LengthBits(n, x) ==
    PutBits(At(off5071E0, n), At(off5071D0, n)) \o PutBits(x, At(off5071A0, n))

\* The bits of a distance whose low bits are lowBits many
DistBits(dist, lowBits) ==
    PutBits(At(off507160, (dist - 1) \div (2^lowBits)), At(off507120, (dist - 1) \div (2^lowBits)))
        \o PutBits((dist - 1) % (2^lowBits), lowBits)

TokenBits(t, dictBits) ==
    IF t.lit THEN <<0>> \o PutBits(t.byte, 8)
    ELSE <<1>> \o LengthBits(LengthCode(t.len), t.len - 2 - LengthBase(LengthCode(t.len)))
             \o DistBits(t.dist, IF t.len = 2 THEN 2 ELSE dictBits)

RECURSIVE TokensBits(_, _)
TokensBits(ts, dictBits) ==
    IF ts = <<>> THEN <<1>> \o LengthBits(15, 255)
    ELSE TokenBits(Head(ts), dictBits) \o TokensBits(Tail(ts), dictBits)

\* The bytes of a stream of bits, the last one filled up with zeros
PackBits(bits) ==
    [k \in 1..((Len(bits) + 7) \div 8) |->
        LET bit(i) == IF 8 * (k - 1) + i <= Len(bits) THEN bits[8 * (k - 1) + i] * 2^(i - 1)
                      ELSE 0
        IN  bit(1) + bit(2) + bit(3) + bit(4) + bit(5) + bit(6) + bit(7) + bit(8)]

\* The compressed chunk of the tokens
Imploded(ts, dictBits) == <<0, dictBits>> \o PackBits(TokensBits(ts, dictBits))

\* The bytes the tokens stand for: a match is len bytes, each the byte dist
\* places before it, so that the dist bytes before the match repeat
Repeated(bytes, dist, len) ==
    bytes \o [k \in 1..len |-> bytes[Len(bytes) - dist + 1 + ((k - 1) % dist)]]

RECURSIVE OriginalFrom(_, _)
OriginalFrom(bytes, ts) ==
    IF ts = <<>> THEN bytes
    ELSE IF Head(ts).lit THEN OriginalFrom(Append(bytes, Head(ts).byte), Tail(ts))
    ELSE OriginalFrom(Repeated(bytes, Head(ts).dist, Head(ts).len), Tail(ts))

Original(ts) == OriginalFrom(<<>>, ts)

---------------------------------------------------------------------------
(* Replay files: the byte layouts the decoders and parse functions read    *)

\* One chunk: its length, then its bytes
Chunk(d) == PutUint32(Len(d)) \o d

\* A section of chunks: checksum, chunk count, the chunks
SectionOf(chunks) ==
    LET RECURSIVE cat(_)
        cat(cs) == IF cs = <<>> THEN <<>> ELSE Chunk(Head(cs)) \o cat(Tail(cs))
    IN  <<0, 0, 0, 0>> \o PutUint32(Len(chunks)) \o cat(chunks)

\* A section stored as one chunk that is not compressed
RawSection(d) == SectionOf(<<d>>)

\* A section of variable size: the size as a section of 4 bytes, then the data
SizedSection(d) ==
    RawSection(PutUint32(Len(d))) \o (IF d = <<>> THEN <<>> ELSE RawSection(d))

\* A zlib stream holding d in one stored block
ZlibStored(d) ==
    LET sum == adler32(d, Len(d)) IN
    <<120, 1, 1, Len(d) % 256, Len(d) \div 256,
      (65535 - Len(d)) % 256, (65535 - Len(d)) \div 256>> \o d
        \o <<sum[2] \div 256, sum[2] % 256, sum[1] \div 256, sum[1] % 256>>

\* A modern section after the fixed five: its ID, a size word, then the section
NamedSection(id, d) == PutUint32(id) \o PutUint32(Len(d) + 12) \o RawSection(d)

\* A modern section with an ID of its own: its ID, the raw size, the raw bytes
CustomSection(id, d) == PutUint32(id) \o PutUint32(Len(d)) \o d

\* The 36 bytes of a player struct of the header
PlayerStruct(p) ==
    <<p.SlotID % 256, p.SlotID \div 256, 0, 0, p.ID, 0, 0, 0, p.Type, p.Race, p.Team>>
        \o p.Name \o Zeros(25 - Len(p.Name))

\* The 633 bytes of a header section
HeaderData(frames, type, map, players) ==
    LET RECURSIVE structs(_)
        structs(ps) == IF ps = <<>> THEN <<>> ELSE PlayerStruct(Head(ps)) \o structs(Tail(ps))
        d1 == copyAt(Zeros(633), 0, <<1>> \o PutUint32(frames))
        d2 == copyAt(d1, 52, <<128, 0, 128, 0>>)
        d3 == copyAt(d2, 60, <<type % 256, type \div 256>>)
        d4 == copyAt(d3, 97, map)
    IN  copyAt(d4, 161, structs(players))

ReRS == <<114, 101, 82, 83>>
SeRS == <<115, 101, 82, 83>>

\* A legacy replay: the five sections
LegacyFile(hd, cmds, map) ==
    RawSection(ReRS) \o RawSection(hd) \o SizedSection(cmds) \o SizedSection(map)
        \o RawSection(Zeros(768))

\* A 1.21+ replay: the length field after the replay ID, then named sections
Modern121File(hd, cmds, map, names, more) ==
    RawSection(SeRS) \o PutUint32(Len(hd)) \o RawSection(hd) \o SizedSection(cmds)
        \o SizedSection(map) \o RawSection(names) \o more

\* A 1.18 - 1.20 replay: the header is a zlib stream
ModernFile(hd, cmds, map) ==
    RawSection(ReRS) \o SectionOf(<<ZlibStored(hd)>>) \o SizedSection(cmds)
        \o SizedSection(map) \o RawSection(Zeros(768))

Prefix(b, n) == SubSeq(b, 1, n)


\* A frame block of the commands section
FrameBlock(fr, cmds) == PutUint32(fr) \o <<Len(cmds)>> \o cmds

\* A sub-section of the map data section
SubSection(id, d) == id \o PutUint32(Len(d)) \o d

\* A placed unit of a "UNIT" sub-section
PlacedUnit(x, y, unitID, owner) ==
    <<0, 0, 0, 0, x % 256, x \div 256, y % 256, y \div 256, unitID % 256, unitID \div 256,
      0, 0, 0, 0, 0, 0, owner>> \o Zeros(19)

Player(slot, id, type, team, name) ==
    [SlotID |-> slot, ID |-> id, Type |-> type, Race |-> 0, Team |-> team, Name |-> name]

---------------------------------------------------------------------------
(* The replays parsed                                                      *)

NameA == <<65>>
NameB == <<66>>
NameC == <<67>>

AllCfg == [Commands |-> TRUE, MapData |-> TRUE]

TwoPlayers == <<Player(0, 0, PlayerTypeHuman, 1, NameA), Player(1, 1, PlayerTypeHuman, 2, NameB)>>

Header1v1 == HeaderData(1000, GameTypeMelee, <<77>>, TwoPlayers)

SomeCmds ==
    FrameBlock(10, <<0, TypeIDKeepAlive, 1, TypeIDHotkey, 0, 1>>)
        \o FrameBlock(20, <<1, TypeIDLeaveGame, 1>>)

SomeMap ==
    SubSection(IdDIM, <<128, 0, 96, 0>>)
        \o SubSection(IdUNIT, PlacedUnit(100, 200, UnitIDStartLocation, 0))
        \o SubSection(IdVER, <<59, 0>>)

\* Replays of each format that every parse function has a part in
CoreFiles ==
    {[bytes |-> LegacyFile(Header1v1, SomeCmds, SomeMap), cfg |-> AllCfg],
     [bytes |-> ModernFile(Header1v1, SomeCmds, SomeMap), cfg |-> AllCfg],
     [bytes |-> Modern121File(Header1v1, SomeCmds, SomeMap, Zeros(768),
                              NamedSection(1398033740, Zeros(28))
                                  \o CustomSection(1952539219, Zeros(8))
                                  \o CustomSection(7, <<1, 2, 3>>)),
      cfg |-> AllCfg]}

\* A 1.18 - 1.20 replay with these commands and this map data
WithCmds(hd, cmds) == [bytes |-> ModernFile(hd, cmds, SomeMap), cfg |-> AllCfg]

WithMap(map) == [bytes |-> ModernFile(Header1v1, SomeCmds, map), cfg |-> AllCfg]

\* The longest of the beginnings of a replay that are tried as inputs
MaxPrefix == 32

\* Inputs that end early: every beginning of a legacy and of a modern replay
\* up to MaxPrefix bytes, and one that ends inside the header section
ShortFiles ==
    {[bytes |-> Prefix(LegacyFile(Header1v1, SomeCmds, SomeMap), n), cfg |-> AllCfg] :
        n \in 0..MaxPrefix}
    \cup {[bytes |-> Prefix(ModernFile(Header1v1, SomeCmds, SomeMap), n), cfg |-> AllCfg] :
        n \in {16, 24, 28, MaxPrefix, 300}}

\* Inputs whose sections do not hold what their headers declare
BrokenFiles ==
    {\* the header section of a modern replay holds 100 bytes
     [bytes |-> RawSection(ReRS) \o SectionOf(<<ZlibStored(Zeros(100))>>), cfg |-> AllCfg],
     \* it holds one byte more than the 633 declared
     [bytes |-> ModernFile(Header1v1 \o <<0>>, SomeCmds, SomeMap), cfg |-> AllCfg],
     \* it comes in two chunks, 633 and 3 bytes
     [bytes |-> RawSection(ReRS) \o SectionOf(<<ZlibStored(Header1v1), <<1, 2, 3>>>>)
                    \o SizedSection(SomeCmds) \o SizedSection(SomeMap)
                    \o RawSection(Zeros(768)),
      cfg |-> AllCfg],
     \* the length of its chunk is negative
     [bytes |-> RawSection(ReRS) \o <<0, 0, 0, 0>> \o PutUint32(1) \o PutUint32(-5)
                    \o <<120, 1>>,
      cfg |-> AllCfg],
     \* the header section of a legacy replay has no chunks
     [bytes |-> RawSection(ReRS) \o <<0, 0, 0, 0>> \o PutUint32(0)
                    \o SizedSection(SomeCmds) \o SizedSection(SomeMap)
                    \o RawSection(Zeros(768)),
      cfg |-> AllCfg],
     \* the chunk of the legacy header section holds 634 bytes
     [bytes |-> RawSection(ReRS) \o RawSection(Header1v1 \o <<0>>), cfg |-> AllCfg],
     \* the replay ID is not one of the two known
     [bytes |-> RawSection(<<114, 101, 82, 84>>) \o RawSection(Header1v1), cfg |-> AllCfg],
     \* the commands and the map data are not wanted
     [bytes |-> LegacyFile(Header1v1, SomeCmds, SomeMap),
      cfg |-> [Commands |-> FALSE, MapData |-> FALSE]]}

\* A block whose SaveGame command has the length -6: the skip leads back
\* to the start of the command
WrapBlock(fr) == FrameBlock(fr, <<0, TypeIDSaveGame>> \o PutUint32(-6))

\* A block with a command of the type 238, which is no command type, after
\* a KeepAlive of player 0 and before one of player 1
BadBlock(fr) == FrameBlock(fr, <<0, TypeIDKeepAlive, 0, 238, 1, TypeIDKeepAlive>>)

\* A block whose SaveGame command has the length -13: the skip leads to the
\* two bytes before the block
BackBlock(fr) == FrameBlock(fr, <<0, TypeIDSaveGame>> \o PutUint32(-13))

\* The frames of the blocks of the inputs: small, after the end of the game,
\* and negative as int32
SomeFrames == {10, 51, 2000, -1}

\* Commands sections of blocks in some order of frames
CmdsFiles ==
    {WithCmds(Header1v1, FrameBlock(f1, <<0, TypeIDKeepAlive>>)
                             \o FrameBlock(f2, <<1, TypeIDStop, 0, 0, TypeIDKeepAlive>>)) :
        f1, f2 \in SomeFrames}
    \cup
    {WithCmds(Header1v1, cmds) : cmds \in
        {\* a SaveGame command with 2 bytes to skip
         FrameBlock(5, <<0, TypeIDSaveGame, 2, 0, 0, 0, 9, 9, 1, TypeIDKeepAlive>>),
         \* a skip back to the command itself
         WrapBlock(5),
         SomeCmds \o WrapBlock(30),
         \* the scenario of the unknown type ID at frame 50
         SomeCmds \o BadBlock(50) \o FrameBlock(51, <<1, TypeIDStop, 1, 0, TypeIDKeepAlive>>),
         BadBlock(50) \o BadBlock(51) \o SomeCmds,
         \* an unknown type ID in the first command of the section
         FrameBlock(5, <<0, 238, 7>>) \o SomeCmds,
         \* an unknown type ID and a skip back into its block
         SomeCmds \o BadBlock(50) \o BackBlock(51),
         \* a command that ends after the section
         FrameBlock(5, <<0, TypeIDRightClick, 1, 2>>),
         \* a block that ends after the section
         FrameBlock(5, <<0, TypeIDKeepAlive>>) \o <<6, 0, 0>>,
         <<>>}}

\* Map data sections
MapFiles ==
    {WithMap(map) : map \in
        {\* a sub-section of the size -8: the next one starts at 0 again
         <<88, 88, 88, 88>> \o PutUint32(-8) \o <<0>>,
         SomeMap \o <<88, 88, 88, 88>> \o PutUint32(-8 - Len(SomeMap)) \o <<0>>,
         \* the data of a sub-section ends early
         IdDIM \o PutUint32(4) \o <<1, 0>>,
         \* the scenario name is the string 1 of the strings
         SubSection(IdSPRP, <<1, 0, 0, 0>>) \o SubSection(IdSTR, <<1, 0, 4, 0, 65, 73, 0>>),
         <<>>}}

\* Commands as the bytes of a command block
LeaveCmd(pid) == <<pid, TypeIDLeaveGame, 1>>

ChatCmd(pid) == <<pid, TypeIDChat, 0, 72, 105>> \o Zeros(78)

BuildCmd(pid) == <<pid, TypeIDBuild, OrderIDPlaceProtossBuilding, 10, 0, 10, 0, 154, 0>>

\* An Alliance command of a player allied with the slots a and b
AllianceCmd(pid, a, b) ==
    <<pid, TypeIDAlliance>> \o PutUint32(IF a = b THEN 4^a ELSE 4^a + 4^b)

\* The alliance command of the player pid with the slots of the set S
AllianceOf(pid, S) ==
    <<pid, TypeIDAlliance>>
        \o PutUint32((IF 0 \in S THEN 1 ELSE 0) + (IF 1 \in S THEN 4 ELSE 0)
                         + (IF 2 \in S THEN 16 ELSE 0) + (IF 3 \in S THEN 64 ELSE 0))

\* Who leaves or chats in a block of the games of two players: players 0
\* and 1, and 128, an observer of the game that is no player
SomePIDs == {0, 1, 128}

Header1v1UMS == HeaderData(1000, GameTypeUMS, <<77>>, TwoPlayers)

\* Games of two players on two teams: in three blocks each of the players
\* 0 and 1 and of 128 leaves, chats or does nothing
TwoPlayerFiles ==
    {WithCmds(hd, FrameBlock(10, c1) \o FrameBlock(20, c2) \o FrameBlock(30, c3)) :
        hd \in {Header1v1, Header1v1UMS},
        c1 \in {ChatCmd(p) : p \in SomePIDs} \cup {<<0, TypeIDKeepAlive>>},
        c2 \in {LeaveCmd(0), LeaveCmd(1), <<1, TypeIDKeepAlive>>},
        c3 \in {LeaveCmd(0), LeaveCmd(1), LeaveCmd(128)}}

FourPlayers ==
    <<Player(0, 0, PlayerTypeHuman, 0, NameA), Player(1, 1, PlayerTypeHuman, 0, NameB),
      Player(2, 2, PlayerTypeHuman, 0, NameC), Player(3, 3, PlayerTypeHuman, 0, NameA \o NameB)>>

ThreePlayers ==
    <<Player(0, 0, PlayerTypeHuman, 1, NameA), Player(1, 1, PlayerTypeHuman, 1, NameB),
      Player(2, 2, PlayerTypeHuman, 2, NameC)>>

WithComputer ==
    <<Player(0, 0, PlayerTypeHuman, 1, NameA), Player(1, 255, PlayerTypeComputer, 2, NameB)>>

\* Players whose teams differ in the header
MixedPlayers ==
    <<Player(0, 0, PlayerTypeHuman, 1, NameA), Player(1, 1, PlayerTypeHuman, 2, NameB),
      Player(2, 2, PlayerTypeHuman, 1, NameC)>>

\* n Build commands of the player pid
RECURSIVE Builds(_, _)
Builds(pid, n) == IF n = 0 THEN <<>> ELSE BuildCmd(pid) \o Builds(pid, n - 1)

\* Melee games in which the players 0 and 1 ally with each other: a game of
\* two players; games of four, the alliances made after 80 seconds, in which
\* the players of the set builders build and the others do nothing else; a
\* game whose teams differ in the header; games of four whose allies are not
\* neighbours in the list of players
AlliedFiles ==
    {WithCmds(Header1v1, FrameBlock(10, AllianceCmd(0, 0, 1) \o AllianceCmd(1, 0, 1))
                             \o FrameBlock(20, LeaveCmd(0)))}
    \cup
    {WithCmds(HeaderData(3000, GameTypeMelee, <<77>>, FourPlayers),
              FrameBlock(2000, AllianceCmd(0, 0, 1) \o AllianceCmd(1, 0, 1)
                                   \o AllianceCmd(2, 2, 3) \o AllianceCmd(3, 2, 3))
                  \o FrameBlock(2100, Builds(0, IF 0 \in builders THEN 5 ELSE 0)
                                        \o Builds(1, IF 1 \in builders THEN 5 ELSE 0)
                                        \o Builds(2, 5) \o Builds(3, 5))) :
        builders \in SUBSET {0, 1}}
    \cup
    {WithCmds(HeaderData(1000, GameTypeMelee, <<77>>, MixedPlayers),
              FrameBlock(10, AllianceCmd(0, 0, 1) \o AllianceCmd(1, 0, 1) \o AllianceCmd(2, 2, 2)))}
    \cup
    \* of the players 0, 1 and 2 the player hub allies with both others, and
    \* each of these with hub only
    {WithCmds(HeaderData(3000, GameTypeMelee, <<77>>, FourPlayers),
              FrameBlock(2000, AllianceOf(0, IF hub = 0 THEN {0, 1, 2} ELSE {0, hub})
                                   \o AllianceOf(1, IF hub = 1 THEN {0, 1, 2} ELSE {1, hub})
                                   \o AllianceOf(2, IF hub = 2 THEN {0, 1, 2} ELSE {2, hub})
                                   \o AllianceOf(3, {3}))
                  \o FrameBlock(2100, Builds(0, 5) \o Builds(1, 5) \o Builds(2, 5)
                                        \o Builds(3, 5))) :
        hub \in {0, 1, 2}}
    \cup
    \* player 0 allies with t[1], and t[2] with t[3]
    {WithCmds(HeaderData(3000, GameTypeMelee, <<77>>, FourPlayers),
              FrameBlock(2000, AllianceCmd(0, 0, t[1]) \o AllianceCmd(t[1], 0, t[1])
                                   \o AllianceCmd(t[2], t[2], t[3])
                                   \o AllianceCmd(t[3], t[2], t[3]))
                  \o FrameBlock(2100, Builds(0, 5) \o Builds(1, 5) \o Builds(2, 5)
                                        \o Builds(3, 5))) :
        t \in {<<2, 1, 3>>, <<3, 1, 2>>}}

\* Games of more players: melee games with alliances, a game with a team of
\* three on a map that makes random teams, a game against a computer, and a
\* 1 on 1 on a map with triggers that an observer watches
TeamFiles ==
    {WithCmds(HeaderData(1000, GameTypeMelee, <<77>>, FourPlayers),
              FrameBlock(10, AllianceCmd(0, 0, a) \o AllianceCmd(2, 2, 3) \o AllianceCmd(a, 0, b)
                                 \o AllianceCmd(3, 2, 3))
                  \o FrameBlock(20, LeaveCmd(0) \o LeaveCmd(1))) : a, b \in {1, 2}}
    \cup
    {WithCmds(HeaderData(1000, type, name, ThreePlayers),
              FrameBlock(500, AllianceCmd(0, 0, 1) \o AllianceCmd(1, 0, 1) \o AllianceCmd(2, 2, 2)
                                  \o BuildCmd(0) \o BuildCmd(1) \o cmd)
                  \o FrameBlock(600, LeaveCmd(0) \o LeaveCmd(1))) :
        type \in {GameTypeMelee, GameTypeUMS, GameTypeFFA},
        name \in {<<77>>, <<91, 65, 73, 93>>},
        cmd \in {BuildCmd(2), <<2, TypeIDKeepAlive>>}}
    \cup
    {WithCmds(HeaderData(1000, GameTypeMelee, <<77>>, WithComputer),
              FrameBlock(10, BuildCmd(0)) \o FrameBlock(20, LeaveCmd(0)))}

\* The tags of sections that neither ModernSections nor the size hints know,
\* and the lengths such a section declares; it holds 3 bytes
UnknownTags == {0, 7, -1}

UnknownLengths == {-1, 0, 3}

\* A 1.21 replay with a section of the tag id that declares n bytes, and the
\* section "LMTS" after it
UnknownSectionFile(id, n) ==
    Modern121File(Header1v1, SomeCmds, SomeMap, Zeros(768),
                  PutUint32(id) \o PutUint32(n) \o SubSeq(<<1, 2, 3>>, 1, n)
                      \o NamedSection(1398033740, Zeros(28)))

UnknownSectionFiles ==
    {[bytes |-> UnknownSectionFile(id, n), cfg |-> AllCfg] :
        id \in UnknownTags, n \in UnknownLengths}

Files ==
    CoreFiles \cup ShortFiles \cup BrokenFiles \cup CmdsFiles \cup MapFiles
        \cup TwoPlayerFiles \cup TeamFiles \cup AlliedFiles \cup UnknownSectionFiles

---------------------------------------------------------------------------
(* The calls of the functions of the library                               *)

CallOf(fn, arg) == [fn |-> fn, arg |-> arg, result |-> <<>>]

\* Unit tags: every recycle counter, with the indices about 0, about 2^11 and
\* below 2^12
TagIndices == 0..15 \cup 2040..2055 \cup 4088..4095

UnitTagCalls == {CallOf("UnitTag", rc * 4096 + ix) : rc \in 0..15, ix \in TagIndices}

\* Frames: the first ones, those about a minute and an hour, great ones (the
\* greatest whose milliseconds are below 2^31), and some below 0
FrameCalls ==
    {CallOf("Frame.String", f) :
        f \in 0..120 \cup {1000, 1428, 1429, 14285, 14286, 85714, 85715, 85716, 100000,
                           857143, 51130563, -1, -24, -1000, -85715, -100000}}

\* The whole turns the angles go up to on either side of 0
MaxTurns == 3

AngleCalls ==
    {CallOf("angleToClock", a) : a \in (-(MaxTurns * 2 * Pi))..(MaxTurns * 2 * Pi)}

\* Commands of one player for the classification: the kind and the frame
KindCmd(k, fr) ==
    CASE k = "Stop" -> Cmd(Base(fr, 0, TypeIDStop), "QueueableCmd", [Queued |-> FALSE])
      [] k = "Train" -> Cmd(Base(fr, 0, TypeIDTrain), "TrainCmd", [Unit |-> 7])
      [] k = "CancelTrain" ->
             Cmd(Base(fr, 0, TypeIDCancelTrain), "CancelTrainCmd", [UnitTag |-> 1])
      [] k = "Select" -> Cmd(Base(fr, 0, TypeIDSelect), "SelectCmd", [UnitTags |-> <<1>>])
      [] k = "HotkeySelect" ->
             Cmd(Base(fr, 0, TypeIDHotkey), "HotkeyCmd", [HotkeyType |-> 1, Group |-> 1])
      [] k = "HotkeyAssign" ->
             Cmd(Base(fr, 0, TypeIDHotkey), "HotkeyCmd", [HotkeyType |-> 0, Group |-> 1])
      [] k = "Move" ->
             Cmd(Base(fr, 0, TypeIDTargetedOrder), "TargetedOrderCmd",
                 [Pos |-> [X |-> 1, Y |-> 1], UnitTag |-> 0, Unit |-> 0,
                  Order |-> OrderIDMove, Queued |-> FALSE])
      [] k = "Upgrade" -> Cmd(Base(fr, 0, TypeIDUpgrade), "UpgradeCmd", [Upgrade |-> 1])

Kinds == {"Stop", "Train", "CancelTrain", "Select", "HotkeySelect", "HotkeyAssign",
          "Move", "Upgrade"}

\* Histories of one, two and three commands, close in time or far apart
Histories ==
    {<<KindCmd(k1, 100)>> : k1 \in Kinds}
    \cup {<<KindCmd(k1, 100), KindCmd(k2, 100 + d)>> : k1, k2 \in Kinds, d \in {0, 5, 30}}
    \cup {<<KindCmd(k1, 100), KindCmd(k2, 104), KindCmd(k3, 108)>> : k1, k2, k3 \in Kinds}

IneffKindCalls ==
    UNION {{CallOf("CmdIneffKind", [cmds |-> h, i |-> i]) : i \in 0..(Len(h) - 1)} :
              h \in Histories}

\* Commands on the selection and on the hotkeys: a select, select add or
\* select remove command, or the hotkey command of a type (0: assign, 1:
\* select, 2: add) on a group
TapKinds ==
    [Type : {TypeIDSelect, TypeIDSelectAdd, TypeIDSelectRemove}, HotkeyType : {0}, Group : {0}]
        \cup [Type : {TypeIDHotkey}, HotkeyType : {0, HotkeyTypeIDSelect, 2}, Group : {1, 2}]

TapCmd(k, fr) ==
    IF k.Type = TypeIDHotkey
    THEN Cmd(Base(fr, 0, TypeIDHotkey), "HotkeyCmd",
             [HotkeyType |-> k.HotkeyType, Group |-> k.Group])
    ELSE Cmd(Base(fr, 0, k.Type), "SelectCmd", [UnitTags |-> <<1>>])

\* The frames between two of these commands, and the most commands
TapGaps == {8, 9}

MaxTaps == 3

\* The history of the commands ks, the first in frame 100, gs[i] frames
\* between the command i - 1 and the command i
RECURSIVE TapFrame(_, _)
TapFrame(gs, i) == IF i = 1 THEN 100 ELSE TapFrame(gs, i - 1) + gs[i]

TapHistory(ks, gs) == [i \in 1..Len(ks) |-> TapCmd(ks[i], TapFrame(gs, i))]

\* Players for the detection of observers: what a human player did (APM,
\* build commands, frame of the last command)
Behaviours ==
    {[APM |-> 0, builds |-> 0, last |-> 1000], [APM |-> 50, builds |-> 10, last |-> 1000],
     [APM |-> 50, builds |-> 10, last |-> 100], [APM |-> 30, builds |-> 1, last |-> 1000]}

\* A human does one of these; a computer has no commands
PlayerKinds ==
    [Type : {PlayerTypeHuman}, did : Behaviours]
        \cup {[Type |-> PlayerTypeComputer, did |-> [APM |-> 0, builds |-> 0, last |-> 0]]}

\* The most players of such a game
MaxObsPlayers == 3

\* The header of a game of the players ps, as parseHeader gives it
HeaderOf(ps) ==
    parseHeader(HeaderData(1000, GameTypeUMS, <<77>>,
                           [i \in 1..Len(ps) |->
                               Player(i - 1, i - 1, ps[i].Type, 1, <<64 + i>>)])).h

DetectObserversCall(ps, obsProf) ==
    CallOf("detectObservers",
           [h |-> HeaderOf(ps),
            pds |-> [i \in 1..Len(ps) |->
                        [NewPlayerDesc(i - 1) EXCEPT !.APM = ps[i].did.APM,
                                                     !.LastCmdFrame = ps[i].did.last]],
            pidBuilds |-> [id \in 0..(Len(ps) - 1) |-> ps[id + 1].did.builds],
            obsProf |-> obsProf])

DetectObserversCalls ==
    {DetectObserversCall(ps, obsProf) :
        ps \in UNION {[1..n -> PlayerKinds] : n \in 1..MaxObsPlayers},
        obsProf \in {obsProfileMelee, obsProfileUMSAI}}

\* The players of the games whose winners are computed: humans of the teams
\* 1 and 2, a computer of the team 2, and an observer
WinnerKinds ==
    {[Type |-> PlayerTypeHuman, Team |-> 1, Observer |-> FALSE],
     [Type |-> PlayerTypeHuman, Team |-> 2, Observer |-> FALSE],
     [Type |-> PlayerTypeComputer, Team |-> 2, Observer |-> FALSE],
     [Type |-> PlayerTypeHuman, Team |-> 3, Observer |-> TRUE]}

\* The most players of such a game, and the most leave game commands
MaxWinPlayers == 3

MaxLeaves == 2

\* The header of a game of the players ps (their IDs are 0, 1, ...) as
\* parseHeader gives it, with the observers that detectObservers has flagged
WinnersHeader(ps) ==
    LET h == parseHeader(HeaderData(1000, GameTypeUMS, <<77>>,
                                    [i \in 1..Len(ps) |->
                                        Player(i - 1, i - 1, ps[i].Type, ps[i].Team,
                                               <<64 + i>>)])).h
    IN  [h EXCEPT !.Slots = [x \in 1..Len(h.Slots) |->
                                IF x \in 1..Len(ps) /\ h.Slots[x].ID = x - 1
                                THEN [h.Slots[x] EXCEPT !.Observer = ps[x].Observer]
                                ELSE h.Slots[x]]]

\* computeWinners on the game of the header h, after the leave game commands
\* of the players leaves, the replay saver being saver (<<>>: not known)
ComputeWinnersCall(h, leaves, saver) ==
    CallOf("computeWinners",
           [rep |-> [Header |-> <<h>>,
                     Computed |->
                         <<[NewComputed(h) EXCEPT
                               !.LeaveGameCmds = [k \in 1..Len(leaves) |->
                                                     [PlayerID |-> leaves[k]]],
                               !.RepSaverPlayerID = saver]>>]])

\* The games, the lists of leavers and the replay savers of these calls. The
\* players of a game are of every kind in every order, so the leavers are
\* named in the order of their first leave: player 0 leaves first, and a
\* player that has not left before has the next ID
WinnerGames ==
    {WinnersHeader(ps) : ps \in UNION {[1..n -> WinnerKinds] : n \in 2..MaxWinPlayers}}

WinnerLeaves ==
    {l \in UNION {[1..n -> 0..(MaxWinPlayers - 1)] : n \in 0..MaxLeaves} :
        \A k \in 1..Len(l) : l[k] <= Cardinality({l[j] : j \in 1..(k - 1)})}

WinnerSavers == {<<>>} \cup {<<pid>> : pid \in 0..(MaxWinPlayers - 1)}

\* The tokens of the compressed chunks: literals, and matches of the least
\* lengths, of the first length with extra bits and of the lengths of the
\* last length code, that overlap themselves or not
SomeLits == {Lit(0), Lit(65), Lit(255)}

SomeMatches == {Match(len, dist) : len \in {2, 3, 10, 264, 518}, dist \in {1, 3}}

\* The most tokens of a chunk
MaxTokens == 3

\* The streams of tokens: a literal first, and no match from before the
\* first byte
RECURSIVE TokenSeqs(_)
TokenSeqs(n) ==
    IF n = 1 THEN {<<l>> : l \in SomeLits}
    ELSE TokenSeqs(n - 1)
         \cup {Append(ts, t) : ts \in {q \in TokenSeqs(n - 1) : Len(q) = n - 1},
                               t \in SomeLits \cup SomeMatches}

ValidTokens(ts) ==
    \A k \in 1..Len(ts) : ~ts[k].lit => ts[k].dist <= Len(Original(SubSeq(ts, 1, k - 1)))

\* A stream of more bytes than the greatest dictionary, whose last matches
\* reach as far back as the dictionary bits allow
FarTokens(dictBits) ==
    <<Lit(7), Lit(8)>> \o [k \in 1..8 |-> Match(518, 2)]
        \o <<Match(5, 64 * 2^dictBits), Match(2, 256), Lit(9)>>

\* repSection on the chunk that the tokens ts compress to
RepSectionCall(ts, dictBits) ==
    CallOf("repSection", [tokens |-> ts, src |-> Imploded(ts, dictBits)])

RepSectionCalls == {RepSectionCall(FarTokens(dictBits), dictBits) : dictBits \in 4..6}

\* The most bytes that the end of a compressed chunk lacks
MaxCut == 2

\* Section of a legacy decoder on a section of size bytes in one compressed
\* chunk, the chunk of the tokens ts without its last cut bytes
LegacySectionCall(ts, dictBits, cut, sz) ==
    CallOf("legacyDecoder.Section",
           [tokens |-> ts, cut |-> cut, size |-> sz,
            chunk |-> Prefix(Imploded(ts, dictBits), Len(Imploded(ts, dictBits)) - cut),
            b |-> SectionOf(<<Prefix(Imploded(ts, dictBits),
                                      Len(Imploded(ts, dictBits)) - cut)>>)])

CallSets ==
    <<UnitTagCalls, FrameCalls, AngleCalls, IneffKindCalls, DetectObserversCalls,
      RepSectionCalls>>

\* No parse has begun
Fresh ==
    /\ rf = RepFormatUnknown
    /\ sectionsCounter = 0
    /\ rpos = 0
    /\ sectionCounter = 0
    /\ s = NoSection
    /\ size = 0
    /\ data = <<>>
    /\ r = NewReplay(RepFormatUnknown)
    /\ ret = NoRet
    /\ panicked = FALSE
    /\ crashed = FALSE
    /\ secLog = <<>>
    /\ srPos = 0
    /\ frame = 0
    /\ cmdBlockEndPos = 0
    /\ hist = NoHist
    /\ esi = NilEsi
    /\ zeroedEsiData = ZeroEsi

InitWith(files) ==
    /\ \E f \in files : repData = f.bytes /\ cfg = f.cfg
    /\ pc = "ParseConfig"
    /\ Fresh
    /\ other = <<>>
    /\ call = <<>>

Init == InitWith(Files)

Next ==
    \/ ParseConfig
    \/ ParseNewSection
    \/ ParseSectionSize
    \/ ParseSection
    \/ ParseReplayID
    \/ ParseHeader
    \/ ParseCommandsBegin
    \/ CmdFrameBlock
    \/ CmdStep
    \/ CmdBlockEnd
    \/ ParseCommandsReturn
    \/ ParseMapDataBegin
    \/ MapSubSection
    \/ ParseMapDataReturn
    \/ ParsePlayerNames
    \/ ParseModernSection
    \/ CallCompute

Spec == Init /\ [][Next]_vars

\* A caller that calls the functions of the library
InitCalls ==
    /\ repData = <<>> /\ cfg = AllCfg
    /\ pc = "Call"
    /\ Fresh
    /\ other = <<>>
    /\ \/ \E k \in 1..Len(CallSets) : call \in CallSets[k]
       \/ \E h \in WinnerGames, leaves \in WinnerLeaves, saver \in WinnerSavers :
              call = ComputeWinnersCall(h, leaves, saver)
       \/ \E ts \in {q \in TokenSeqs(MaxTokens) : ValidTokens(q)}, dictBits \in 4..6 :
              call = RepSectionCall(ts, dictBits)
       \/ \E ts \in {q \in TokenSeqs(MaxTokens - 1) : ValidTokens(q)}, dictBits \in 4..6,
             cut \in 0..MaxCut :
              call = LegacySectionCall(ts, dictBits, cut, Len(Original(ts)))
       \/ \E n \in 2..MaxTaps : \E ks \in [1..n -> TapKinds], gs \in [2..n -> TapGaps] :
              call = CallOf("CmdIneffKind", [cmds |-> TapHistory(ks, gs), i |-> n - 1])

NextCalls ==
    \/ CallUnitTag
    \/ CallFrameString
    \/ CallAngleToClock
    \/ CallCmdIneffKind
    \/ CallDetectObservers
    \/ CallRepSection
    \/ CallLegacySection
    \/ CallComputeWinners

SpecCalls == InitCalls /\ [][NextCalls]_vars

---------------------------------------------------------------------------
(* Two callers of ParseConfig at once.  ParseConfig makes a decoder of its  *)
(* own for its replay buffer, so each caller has its own values of every    *)
(* variable but zeroedEsiData, the one variable of a package that a parse   *)
(* has an assignment near: the variables are those of the caller that runs, *)
(* and other holds those of the caller that waits.  Before the two are      *)
(* started, the first replay is parsed by one caller alone.                 *)

\* Legacy replays with compressed chunks: the commands section is one chunk
\* of 4154 bytes, over which the window of the decompressor is moved (the
\* commands are not asked for); the map data section is one chunk whose
\* first match begins before its first byte, in the part of esi.data that
\* initEsi has zeroed: 8 bytes of 0, a sub-section without a name and of the
\* size 0, then a sub-section "UNIT" with a start location, then the first 8
\* bytes again
LzMap ==
    Zeros(8) \o SubSection(IdUNIT, PlacedUnit(100, 200, UnitIDStartLocation, 0)) \o Zeros(8)

LzMapTokens ==
    <<Match(8, 1)>> \o [k \in 1..(Len(LzMap) - 16) |-> Lit(LzMap[8 + k])]
        \o <<Match(8, Len(LzMap) - 8)>>

LzFile(dictBits) ==
    RawSection(ReRS) \o RawSection(Header1v1)
        \o RawSection(PutUint32(Len(Original(FarTokens(dictBits)))))
        \o SectionOf(<<Imploded(FarTokens(dictBits), dictBits)>>)
        \o RawSection(PutUint32(Len(LzMap)))
        \o SectionOf(<<Imploded(LzMapTokens, dictBits)>>)
        \o RawSection(Zeros(768))

\* The replays that two callers parse at once
ConcFiles ==
    {[bytes |-> LzFile(6), cfg |-> [Commands |-> FALSE, MapData |-> TRUE]]} \cup CoreFiles

\* The variables of the caller that runs
Locals ==
    [repData |-> repData, cfg |-> cfg, pc |-> pc, rf |-> rf,
     sectionsCounter |-> sectionsCounter, rpos |-> rpos,
     sectionCounter |-> sectionCounter, s |-> s, size |-> size, data |-> data,
     r |-> r, ret |-> ret, panicked |-> panicked, crashed |-> crashed,
     secLog |-> secLog, srPos |-> srPos, frame |-> frame,
     cmdBlockEndPos |-> cmdBlockEndPos, hist |-> hist, esi |-> esi]

\* A caller about to call ParseConfig(f.bytes, f.cfg)
FreshCaller(f) ==
    [repData |-> f.bytes, cfg |-> f.cfg, pc |-> "ParseConfig", rf |-> RepFormatUnknown,
     sectionsCounter |-> 0, rpos |-> 0, sectionCounter |-> 0, s |-> NoSection,
     size |-> 0, data |-> <<>>, r |-> NewReplay(RepFormatUnknown), ret |-> NoRet,
     panicked |-> FALSE, crashed |-> FALSE, secLog |-> <<>>, srPos |-> 0, frame |-> 0,
     cmdBlockEndPos |-> 0, hist |-> NoHist, esi |-> NilEsi]

\* The caller c goes on
Resume(c) ==
    /\ repData' = c.repData /\ cfg' = c.cfg /\ pc' = c.pc /\ rf' = c.rf
    /\ sectionsCounter' = c.sectionsCounter /\ rpos' = c.rpos
    /\ sectionCounter' = c.sectionCounter /\ s' = c.s /\ size' = c.size
    /\ data' = c.data /\ r' = c.r /\ ret' = c.ret /\ panicked' = c.panicked
    /\ crashed' = c.crashed /\ secLog' = c.secLog /\ srPos' = c.srPos
    /\ frame' = c.frame /\ cmdBlockEndPos' = c.cmdBlockEndPos /\ hist' = c.hist
    /\ esi' = c.esi

\* ParseConfig of the caller c is over
Over(c) == c.pc \in {"Returned", "Crashed"}

\* What ParseConfig gave the caller c: the replay, the error, the panic
ResultOf(c) == [r |-> c.r, ret |-> c.ret, panicked |-> c.panicked, crashed |-> c.crashed]

\* The parse of the first replay alone is over: two callers begin, the 1st
\* with the same replay, the 2nd with the other one; either runs first
Start ==
    /\ pc \in {"Returned", "Crashed"}
    /\ call.running = 0
    /\ \E k \in 1..2 :
        /\ call' = [call EXCEPT !.running = k, !.alone = ResultOf(Locals)]
        /\ Resume(FreshCaller(call.files[k]))
        /\ other' = FreshCaller(call.files[3 - k])
    /\ UNCHANGED zeroedEsiData

\* The scheduler lets the other caller run
Switch ==
    /\ call.running \in 1..2
    /\ ~Over(other)
    /\ call' = [call EXCEPT !.running = 3 - call.running]
    /\ Resume(other)
    /\ other' = Locals
    /\ UNCHANGED zeroedEsiData

InitConc ==
    /\ \E f \in ConcFiles, g \in ConcFiles :
        /\ repData = f.bytes /\ cfg = f.cfg
        /\ call = [fn |-> "ParseConfig", files |-> <<f, g>>, running |-> 0, alone |-> <<>>]
    /\ pc = "ParseConfig"
    /\ Fresh
    /\ other = <<>>

NextConc ==
    \/ ParseConfig
    \/ ParseNewSection
    \/ ParseSectionSize
    \/ ParseSection
    \/ ParseReplayID
    \/ ParseHeader
    \/ ParseCommandsBegin
    \/ CmdFrameBlock
    \/ CmdStep
    \/ CmdBlockEnd
    \/ ParseCommandsReturn
    \/ ParseMapDataBegin
    \/ MapSubSection
    \/ ParseMapDataReturn
    \/ ParsePlayerNames
    \/ ParseModernSection
    \/ Start
    \/ Switch

SpecConc == InitConc /\ [][NextConc]_vars

---------------------------------------------------------------------------
(* The properties                                                          *)

\* The commands decoded so far
Cmds == IF r.Commands = <<>> THEN <<>> ELSE r.Commands[1].Cmds

\* How many commands there were when the block after block k began (when
\* block k is the last one: how many there are)
CmdsAfter(k) == IF k < Len(hist.blocks) THEN hist.blocks[k + 1].cmds ELSE Len(Cmds)

\* C1: ParseConfig never lets a panic escape: when a step of the section
\* framing, the decompression or a parse function panics, ParseConfig
\* returns a nil Replay and ErrParsing, and the caller goes on.
C1_NoPanicEscapes ==
    panicked => /\ pc = "Returned"
                /\ ret.nil
                /\ ret.err = ErrParsing
                /\ ~ret.escaped
                /\ ~crashed

\* ParseConfig has returned after a panic in Decoder.Section
C1_Witness ==
    /\ panicked
    /\ pc = "Returned"
    /\ secLog # <<>>
    /\ secLog[Len(secLog)].panic

\* C3: parsing always terminates: each loop of the decode strictly advances
\* its read position, so no loop comes to the head it has passed before
\* with the position and the block it had there.
C3_LoopsAdvance == ~hist.back /\ ~hist.repeat

\* C4: in every command sequence the decoder produces the frames are
\* non-decreasing: Cmds[i].Frame <= Cmds[j].Frame for all i < j.
C4_FramesNonDecreasing ==
    \A i, j \in 1..Len(Cmds) : i < j => Cmds[i].Frame <= Cmds[j].Frame

\* C4 as amended: every command has the frame of the frame block it was
\* decoded in, so the frames of Cmds are non-decreasing as far as the frames
\* of the blocks are, in the order the decoder read them.
C4_FramesOfBlocks ==
    /\ \A k \in 1..Len(hist.blocks) :
           \A i \in (hist.blocks[k].cmds + 1)..CmdsAfter(k) :
               Cmds[i].Frame = hist.blocks[k].frame
    /\ (\A k \in 1..(Len(hist.blocks) - 1) :
            hist.blocks[k].frame <= hist.blocks[k + 1].frame)
           => C4_FramesNonDecreasing

\* Two blocks with commands have been decoded, the later one of a lesser frame
C4_Witness ==
    /\ pc = "Returned"
    /\ Len(hist.blocks) = 2
    /\ hist.blocks[1].frame > hist.blocks[2].frame
    /\ Len(Cmds) = 3
    /\ Cmds[1].Frame > Cmds[3].Frame

\* C5: an input of fewer than 30 bytes is of the format Unknown and makes
\* the decoder fail fast with 'not a replay file': no section is decoded,
\* and what ParseConfig returns is that error.
C5_ShortInputRejected ==
    Len(repData) < 30 /\ pc # "ParseConfig" =>
        /\ rf = RepFormatUnknown
        /\ \A k \in 1..Len(secLog) : secLog[k].err # NoErr
        /\ pc = "Returned" => ret.nil /\ ret.err = ErrNotReplayFile

\* C6: whenever ParseConfig returns a nil error the Replay it returns has a
\* Header; an input that ends before the header section is decoded gives
\* an error and no Replay.
C6_HeaderAlwaysParsed ==
    pc = "Returned" /\ ret.err = NoErr => ~ret.nil /\ r.Header # <<>>

\* C7: Section(size) succeeds only when the outputs of the chunks add up
\* to the declared size, in the legacy and in the modern decoder.
C7_SectionSizeChecked ==
    \A k \in 1..Len(secLog) :
        secLog[k].size > 0 /\ secLog[k].chunked /\ secLog[k].err = NoErr /\ ~secLog[k].panic
            => secLog[k].total = secLog[k].size

\* C8: Compute never panics on a Replay that ParseConfig returned without
\* an error.
C8_ComputeCompletes == ~ret.nil => ~crashed

\* C9: a second call of Compute is a no-op: Computed, the order, the teams
\* and the observer flags of Header.Players and the IneffKind of every
\* command stay as the first call left them.
C9_SecondComputeNoOp == [][pc = "Computed" => r' = r]_vars

\* Compute has been called twice on a replay with commands, a winner and
\* a leave game command
C9_Witness ==
    /\ pc = "Computed2"
    /\ r.Computed # <<>>
    /\ r.Computed[1].WinnerTeam # 0
    /\ r.Computed[1].LeaveGameCmds # <<>>
    /\ \E i \in 1..Len(r.Computed[1].PlayerDescs) : r.Computed[1].PlayerDescs[i].CmdCount > 0

\* The data of the commands section without the bytes of block k
WithoutBlock(k) ==
    Slice(data, 0, hist.blocks[k].start) \o Slice(data, hist.blocks[k].endPos, Len(data))

\* The commands from the n-th on
CmdsFrom(cmds, n) == SubSeq(cmds, n + 1, Len(cmds))

\* The blocks a command of an unknown type was met in
BadBlocks ==
    {k \in 1..Len(hist.blocks) :
        \E e \in 1..Len(r.Commands[1].ParseErrCmds) :
            /\ e > hist.blocks[k].errs
            /\ k < Len(hist.blocks) => e <= hist.blocks[k + 1].errs}

\* The commands section has been decoded to its end
CommandsDecoded == pc = "CmdLoop" /\ ~LtU32(srPos, Len(data))

\* What the later blocks give without block k is what they gave with it
LaterBlocksAs(k, without) ==
    /\ ~without.panic
    /\ ~without.loop
    /\ CmdsFrom(without.cs.Cmds, hist.blocks[k].cmds) = CmdsFrom(Cmds, CmdsAfter(k))

\* C2: a type ID that is not known makes one ParseErrCmd for its block, no
\* more commands come from that block, the decoder goes on at the end the
\* block declares, and every later block gives the commands it would give
\* had the bad block not been there.
C2_BadBlockSkipped ==
    CommandsDecoded =>
        \A k \in BadBlocks :
            /\ r.Commands[1].ParseErrCmds[hist.blocks[k].errs + 1].PrevCmd = CmdsAfter(k)
            /\ k < Len(hist.blocks) =>
                   /\ hist.blocks[k + 1].errs = hist.blocks[k].errs + 1
                   /\ hist.blocks[k + 1].start = hist.blocks[k].endPos
            /\ k = Len(hist.blocks) =>
                   Len(r.Commands[1].ParseErrCmds) = hist.blocks[k].errs + 1
            /\ LaterBlocksAs(k, parseCommands(WithoutBlock(k)))

\* The leave game commands among the commands
LeaveGameCmdsOf(cmds) == LET leave(c) == c.Struct = "LeaveGameCmd" IN SelectSeq(cmds, leave)

\* A game of two players, no observers and no computers, on two teams, with
\* two leave game commands, one of each player
TwoLeavers(h, leaves) ==
    /\ Len(h.Players) = 2
    /\ \A i \in 1..2 : ~PlayerAt(h, i).Observer /\ PlayerAt(h, i).Type # PlayerTypeComputer
    /\ PlayerAt(h, 1).Team # PlayerAt(h, 2).Team
    /\ PlayerAt(h, 1).ID # PlayerAt(h, 2).ID
    /\ Len(leaves) = 2
    /\ {leaves[1].PlayerID, leaves[2].PlayerID} = {PlayerAt(h, 1).ID, PlayerAt(h, 2).ID}

\* C10: in a game of two players on two teams with two leave game commands,
\* one of each player, Compute sets WinnerTeam to the team of the player
\* whose leave game command is the second.
C10_SecondLeaverWins ==
    pc = "Computed" /\ r.Commands # <<>> /\ TwoLeavers(r.Header[1], LeaveGameCmdsOf(Cmds)) =>
        r.Computed[1].WinnerTeam =
            r.Header[1].Slots[r.Header[1].PIDPlayers[LeaveGameCmdsOf(Cmds)[2].PlayerID]].Team

---------------------------------------------------------------------------
(* The functions of the library                                            *)

\* The result of the call that has returned
Returned(fn) == call # <<>> /\ call.fn = fn /\ call.result # <<>>

\* C16: a unit tag is its recycle counter in the high 4 bits and its index
\* in the low 12 bits, t = (Recycle << 12) | Index, and it is valid unless it
\* is 0xFFFF.
C16_TagIsIndexAndRecycle ==
    Returned("UnitTag") =>
        /\ call.result[1].Index \in 0..4095
        /\ call.result[1].Recycle \in 0..15
        /\ call.arg = call.result[1].Recycle * 4096 + call.result[1].Index
        /\ call.result[1].Valid <=> call.arg # 65535

\* n of 0..99 in two digits
TwoDigits(n) == <<Digit(n \div 10), Digit(n % 10)>>

\* The whole seconds of a frame count
SecondsOf(f) == (f * 42) \div 1000

\* A number of seconds as mm:ss, and as h:mm:ss from one hour on
ClockString(sec) ==
    IF sec < 3600 THEN TwoDigits(sec \div 60) \o <<":">> \o TwoDigits(sec % 60)
    ELSE Digits(sec \div 3600) \o <<":">> \o TwoDigits((sec % 3600) \div 60)
             \o <<":">> \o TwoDigits(sec % 60)

InSector(a, h) ==
    \/ (a - (3 - h) * oneHour) % (12 * oneHour) < oneHour \div 2
    \/ (a - (3 - h) * oneHour) % (12 * oneHour) > 12 * oneHour - oneHour \div 2

\* An angle exactly between the directions of two hours
BetweenHours(a) == a % oneHour = oneHour \div 2

\* C19: angleToClock gives an hour of 1..12, the same hour for the angle
\* turned by whole turns, and to each hour the sector of 30 degrees about its
\* direction; 0 is 3, pi/2 is 12, pi is 9, 3*pi/2 is 6, pi/2 +- pi/13 is 12.
C19_ClockSectors ==
    Returned("angleToClock") =>
        /\ call.result[1] \in 1..12
        /\ \A n \in 1..MaxTurns :
               /\ angleToClockOf(call.arg + n * 2 * Pi) = call.result[1]
               /\ angleToClockOf(call.arg - n * 2 * Pi) = call.result[1]
        /\ ~BetweenHours(call.arg) =>
               \A h \in 1..12 : call.result[1] = h <=> InSector(call.arg, h)
        /\ call.arg = 0 => call.result[1] = 3
        /\ call.arg = Pi \div 2 => call.result[1] = 12
        /\ call.arg = Pi => call.result[1] = 9
        /\ call.arg = (3 * Pi) \div 2 => call.result[1] = 6
        /\ call.arg \in {Pi \div 2 + Pi \div 13, Pi \div 2 - Pi \div 13} => call.result[1] = 12

C19_Witness ==
    /\ Returned("angleToClock")
    /\ call.arg = Pi \div 2 - Pi \div 13 - 2 * 2 * Pi
    /\ call.result[1] = 12

\* C15: the first command of a history is effective, whatever it is.
C15_FirstCmdEffective ==
    Returned("CmdIneffKind") /\ call.arg.i = 0 =>
        call.result[1] = IneffKindEffective

C15_Witness ==
    /\ Returned("CmdIneffKind")
    /\ call.arg.i = 0
    /\ Len(call.arg.cmds) = 3
    /\ call.arg.cmds[1].Type = TypeIDStop
    /\ call.arg.cmds[2].Type = TypeIDStop
    /\ call.result[1] = IneffKindEffective

---------------------------------------------------------------------------
(* The sections of the file                                                *)

\* A step of dec.NewSection() in which the decoder consumes the length
\* field of 4 bytes, if at all, before the n-th section and with the format
\* Modern121 only, and consumes it then unless the file ends there
FieldConsumedBefore(n) ==
    pc = "NewSection" =>
        /\ sectionsCounter' = sectionsCounter + 1
        /\ rpos' # rpos =>
               rf = RepFormatModern121 /\ sectionsCounter' = n /\ rpos' = rpos + 4
        /\ rf = RepFormatModern121 /\ sectionsCounter' = n /\ pc' \in {"Section", "SectionSize"}
               => rpos' = rpos + 4

\* C20 as claimed: with the format Modern121 the decoder consumes one length
\* field of 4 bytes right before the 3rd section (the commands), after the
\* replay ID and the header; with Legacy and Modern it consumes none.
C20_FieldBeforeThirdSection == [][FieldConsumedBefore(3)]_vars

\* C20: with the format Modern121 the decoder consumes one length field of 4
\* bytes right before the 2nd section (the header), after the replay ID;
\* with Legacy and Modern it consumes none.
C20_FieldBeforeSecondSection == [][FieldConsumedBefore(2)]_vars

\* A file of the format Modern121 whose header and commands have been parsed
C20_Witness ==
    /\ rf = RepFormatModern121
    /\ sectionsCounter >= 3
    /\ r.Header # <<>>
    /\ r.Commands # <<>>
    /\ pc = "Returned" /\ ret.err = NoErr

---------------------------------------------------------------------------
(* The winners                                                             *)

\* A team of computers only: computeWinners returns before it looks at a
\* leave game command
ComputersOnlyTeam(h) ==
    \E i \in nonObservers(h) :
        /\ PlayerAt(h, i).Type = PlayerTypeComputer
        /\ \A j \in nonObservers(h) :
               PlayerAt(h, j).Team = PlayerAt(h, i).Team
                   => PlayerAt(h, j).Type = PlayerTypeComputer

\* The team t is the only one of the largest size
StrictlyLargest(teamSizes, t) ==
    \A u \in DOMAIN teamSizes \ {t} : teamSizes[u] < teamSizes[t]

\* With the sizes of the teams after the leave game commands: of two teams
\* or more, after a leave game command or more, the only largest team is
\* the winner
LargestWins(teamSizes, leaves, winner) ==
    Cardinality(DOMAIN teamSizes) >= 2 /\ Len(leaves) >= 1 =>
        \A t \in DOMAIN teamSizes : StrictlyLargest(teamSizes, t) => winner = t

\* C11: the largest remaining team wins.  After the count of the human
\* players of each team has been decremented once for each leave game command
\* that computeWinners has processed, if there are two teams or more, one
\* leave game command or more, and one team is strictly the largest, then
\* WinnerTeam is that team.
C11_LargestTeamWins ==
    pc = "Computed" /\ r.Computed # <<>> /\ ~ComputersOnlyTeam(r.Header[1]) =>
        LargestWins(teamSizesOf(r.Header[1], leaveGameCmdsOf(r.Header[1], r.Computed[1])),
                    leaveGameCmdsOf(r.Header[1], r.Computed[1]),
                    r.Computed[1].WinnerTeam)

---------------------------------------------------------------------------
(* The observers                                                           *)

\* The player i of the call is an observer by the criteria of the profile:
\* a human of a low APM and few build commands, or one that left early if the
\* profile has an early frame; a computer if the profile says so
ObserverByProfile(a, i) ==
    IF PlayerAt(a.h, i).Type = PlayerTypeComputer THEN a.obsProf.computer
    ELSE /\ PlayerAt(a.h, i).Type = PlayerTypeHuman
         /\ \/ /\ a.pds[i].APM < a.obsProf.apmLimit
               /\ a.pidBuilds[PlayerAt(a.h, i).ID] < a.obsProf.buildCmdsLimit
            \/ /\ a.obsProf.earlyLeaveFrame # 0
               /\ a.pds[i].LastCmdFrame < a.obsProf.earlyLeaveFrame

\* The players of the header h that are not flagged as observers
NotObservers(h) == {i \in 1..Len(h.Players) : ~PlayerAt(h, i).Observer}

\* C12: after detectObservers the players that are not flagged as observers
\* are 2 or more whenever 2 or more players of the game are no computers; and
\* if the profile would leave fewer than 2 players that are no observers,
\* no player is flagged.
C12_ObserversUndone ==
    Returned("detectObservers") =>
        /\ Cardinality({i \in 1..Len(call.arg.h.Players) :
                            PlayerAt(call.arg.h, i).Type # PlayerTypeComputer}) >= 2
               => Cardinality(NotObservers(call.result[1])) >= 2
        /\ Cardinality({i \in 1..Len(call.arg.h.Players) : ~ObserverByProfile(call.arg, i)}) < 2
               => NotObservers(call.result[1]) = 1..Len(call.arg.h.Players)

\* Three humans, two of them idle: the flags are undone
C12_Witness ==
    /\ Returned("detectObservers")
    /\ Len(call.arg.h.Players) = 3
    /\ \A i \in 1..3 : PlayerAt(call.arg.h, i).Type = PlayerTypeHuman
    /\ call.arg.obsProf = obsProfileMelee
    /\ ObserverByProfile(call.arg, 1) /\ ObserverByProfile(call.arg, 2)
    /\ ~ObserverByProfile(call.arg, 3)
    /\ NotObservers(call.result[1]) = 1..3

---------------------------------------------------------------------------
(* The teams of a melee game                                               *)

\* The commands up to the first one after 90 seconds
RECURSIVE EarlyCmds(_)
EarlyCmds(cmds) ==
    IF cmds = <<>> \/ Head(cmds).Frame > Duration2Frame(90000) THEN <<>>
    ELSE <<Head(cmds)>> \o EarlyCmds(Tail(cmds))

\* The slots the player pid is allied with by the alliance command in force
\* after 90 seconds: the last one of the player till then, none if there is no
\* such command
AlliedSlots(cmds, pid) ==
    LET ofPlayer(c) == c.Struct = "AllianceCmd" /\ c.PlayerID = pid
        own == SelectSeq(EarlyCmds(cmds), ofPlayer)
    IN  IF own = <<>> THEN {} ELSE Elems(own[Len(own)].f.SlotIDs)

\* The players in the slots x and y of the header are allied with each other
\* and with nobody else
MutualAllies(rep, x, y) ==
    /\ AlliedSlots(rep.Commands[1].Cmds, rep.Header[1].Slots[x].ID)
           = {rep.Header[1].Slots[x].SlotID, rep.Header[1].Slots[y].SlotID}
    /\ AlliedSlots(rep.Commands[1].Cmds, rep.Header[1].Slots[y].ID)
           = {rep.Header[1].Slots[x].SlotID, rep.Header[1].Slots[y].SlotID}

\* Compute is called on a melee game parsed with its commands
ComputeOfMelee ==
    /\ pc = "Returned" /\ pc' = "Computed"
    /\ r.Header # <<>> /\ r.Commands # <<>>
    /\ r.Header[1].Type = GameTypeMelee

\* C13 as claimed: in a melee game two players whose alliance commands in
\* force before 90 seconds ally each with the other (the lists [A, B] and
\* [B, A]) have the same Team after Compute.
C13_MutualAlliesSameTeam ==
    [][ComputeOfMelee =>
           \A x, y \in Elems(r.Header[1].Players) :
               x # y /\ MutualAllies(r, x, y)
                   => r'.Header[1].Slots[x].Team = r'.Header[1].Slots[y].Team]_vars

\* Compute has flagged no observer among the players in the slots X
NoObserver(rep, X) == \A x \in X : ~rep.Header[1].Slots[x].Observer

\* The players of the header that Compute has not flagged as observers have
\* one team in the header as parsed
OneTeamParsed ==
    \A x, y \in Elems(r.Header[1].Players) :
        NoObserver(r', {x, y}) => r.Header[1].Slots[x].Team = r.Header[1].Slots[y].Team

\* C13: in a melee game whose players that are no observers have one team
\* in the parsed header, two players that are no observers and whose alliance
\* commands in force before 90 seconds ally each with the other have the same
\* Team after Compute.
C13_MutualAlliesOfOneTeam ==
    [][ComputeOfMelee /\ OneTeamParsed =>
           \A x, y \in Elems(r.Header[1].Players) :
               x # y /\ MutualAllies(r, x, y) /\ NoObserver(r', {x, y})
                   => r'.Header[1].Slots[x].Team = r'.Header[1].Slots[y].Team]_vars

\* A melee game of four players, none an observer: the players in the first
\* two slots, allied with each other, have one team and the others another
C13_Witness ==
    /\ pc = "Computed"
    /\ r.Commands # <<>>
    /\ r.Header[1].Type = GameTypeMelee
    /\ Len(r.Header[1].Players) = 4
    /\ NoObserver(r, Elems(r.Header[1].Players))
    /\ MutualAllies(r, 1, 2)
    /\ r.Header[1].Slots[1].Team = r.Header[1].Slots[2].Team
    /\ r.Header[1].Slots[3].Team # r.Header[1].Slots[1].Team

---------------------------------------------------------------------------
(* The legacy decompressor                                                 *)

---------------------------------------------------------------------------
(* Two callers at once                                                     *)

\* The 1st of the two callers
Caller1 == IF call.running = 1 THEN Locals ELSE other

---------------------------------------------------------------------------
(* The leave game command of the replay saver                              *)

\* The leave game commands of the stream that computeWinners keeps: those of
\* the players that are no observers
KeptLeaves(h, c) ==
    LET known(cmd) == /\ cmd.PlayerID \in DOMAIN h.PIDPlayers
                      /\ ~h.Slots[h.PIDPlayers[cmd.PlayerID]].Observer
    IN  SelectSeq(c.LeaveGameCmds, known)

\* How many of the leave game commands computeWinners goes through, one
\* decrement each, are of the player pid
Decrements(h, c, pid) ==
    Cardinality({k \in 1..Len(leaveGameCmdsOf(h, c)) : leaveGameCmdsOf(h, c)[k] = pid})

\* C22: the leave game command of the replay saver is added only if the
\* saver is a player, no observer, that has no leave game command in the
\* list yet, so that it is gone through once at most.
C22_SaverLeaveOnce ==
    pc = "Computed" /\ r.Computed # <<>> /\ ~ComputersOnlyTeam(r.Header[1]) =>
        LET h == r.Header[1]
            c == r.Computed[1]
        IN  Len(leaveGameCmdsOf(h, c)) > Len(KeptLeaves(h, c)) =>
                /\ Len(leaveGameCmdsOf(h, c)) = Len(KeptLeaves(h, c)) + 1
                /\ c.RepSaverPlayerID # <<>>
                /\ c.RepSaverPlayerID[1] \in DOMAIN h.PIDPlayers
                /\ ~h.Slots[h.PIDPlayers[c.RepSaverPlayerID[1]]].Observer
                /\ \A k \in 1..Len(KeptLeaves(h, c)) :
                       KeptLeaves(h, c)[k].PlayerID # c.RepSaverPlayerID[1]
                /\ Decrements(h, c, c.RepSaverPlayerID[1]) = 1

---------------------------------------------------------------------------
(* The team of the winners                                                 *)

\* The players that play: no observers, no computers
Playing(h) == {i \in nonObservers(h) : PlayerAt(h, i).Type # PlayerTypeComputer}

\* C30: the winner team that computeWinners leaves is 0 (not known) or the
\* team of a player that is neither an observer nor a computer.
C30_WinnerTeamPlays ==
    Returned("computeWinners") =>
        \/ call.result[1].WinnerTeam = 0
        \/ \E i \in Playing(call.arg.rep.Header[1]) :
               PlayerAt(call.arg.rep.Header[1], i).Team
                   = call.result[1].WinnerTeam

\* A human and a computer of team 2 against a human of team 1 that leaves,
\* watched by nobody: team 2 wins
C30_Witness ==
    /\ Returned("computeWinners")
    /\ Len(call.arg.rep.Header[1].Players) = 3
    /\ \E i \in 1..3 : /\ PlayerAt(call.arg.rep.Header[1], i).Type = PlayerTypeComputer
                       /\ PlayerAt(call.arg.rep.Header[1], i).Team = 2
    /\ Playing(call.arg.rep.Header[1]) # {}
    /\ Len(call.arg.rep.Computed[1].LeaveGameCmds) >= 1
    /\ call.result[1].WinnerTeam = 2

---------------------------------------------------------------------------
(* Sections of unknown tags                                                *)

\* ParseConfig returned the replay with its five fixed sections parsed, and
\* the ninth call of dec.Section, the one after the section of the unknown
\* tag, gave the 28 bytes of the section "LMTS"
ParsedAroundUnknown ==
    /\ ret.err = NoErr /\ ~ret.nil
    /\ r.Header # <<>> /\ r.Commands # <<>> /\ r.MapData # <<>>
    /\ Len(r.Commands[1].Cmds) = 3
    /\ Len(secLog) >= 9
    /\ secLog[9].err = NoErr /\ secLog[9].len = 28

\* C21: a section of an unknown tag after the five fixed sections is read as
\* the raw bytes it declares and skipped, whatever its tag and the length it
\* declares: ParseConfig succeeds with all that was parsed, and the known
\* section after it is read.
C21_UnknownSectionSkipped ==
    pc = "Returned" /\ repData \in {f.bytes : f \in UnknownSectionFiles} =>
        ParsedAroundUnknown

---------------------------------------------------------------------------
(* The order of the players after the detection of the teams               *)

\* Compute is called on a replay parsed with its commands and gives the
\* players other teams or another order
TeamsDetected ==
    /\ pc = "Returned" /\ pc' = "Computed"
    /\ r.Header # <<>> /\ r.Commands # <<>>
    /\ \/ r'.Header[1].Players # r.Header[1].Players
       \/ \E x \in Elems(r.Header[1].Players) :
              r'.Header[1].Slots[x].Team # r.Header[1].Slots[x].Team

\* The place of the player of the slot x in the list players
PlaceIn(players, x) == CHOOSE k \in 1..Len(players) : players[k] = x

\* C23: when the detection of the teams has given the players their teams,
\* Header.Players is in ascending order of Team, players of one team are in
\* the order they had before, and PlayerDescs is in the same order:
\* PlayerDescs[i].PlayerID = Header.Players[i].ID.
C23_TeamOrder ==
    [][TeamsDetected =>
          LET h == r'.Header[1]
              n == Len(h.Players)
          IN  /\ Elems(h.Players) = Elems(r.Header[1].Players)
              /\ n = Len(r.Header[1].Players)
              /\ \A i, j \in 1..n : i < j =>
                     /\ PlayerAt(h, i).Team <= PlayerAt(h, j).Team
                     /\ PlayerAt(h, i).Team = PlayerAt(h, j).Team =>
                            PlaceIn(r.Header[1].Players, h.Players[i])
                                < PlaceIn(r.Header[1].Players, h.Players[j])
              /\ Len(r'.Computed[1].PlayerDescs) = n
              /\ \A i \in 1..n :
                     r'.Computed[1].PlayerDescs[i].PlayerID = PlayerAt(h, i).ID]_vars

\* A melee game of four players in the slots 1 to 4, the first allied with
\* the third and the second with the fourth: the third player is now second
C23_Witness ==
    /\ pc = "Computed"
    /\ r.Commands # <<>>
    /\ r.Header[1].Type = GameTypeMelee
    /\ r.Header[1].Players = <<1, 3, 2, 4>>
    /\ r.Header[1].Slots[1].Team = 1 /\ r.Header[1].Slots[3].Team = 1
    /\ r.Header[1].Slots[2].Team = 2 /\ r.Header[1].Slots[4].Team = 2
    /\ r.Computed[1].PlayerDescs[2].PlayerID = r.Header[1].Slots[3].ID

---------------------------------------------------------------------------
(* Taps on a hotkey                                                        *)

\* The command k (from 0) of the call of CmdIneffKind is a hotkey select
\* command on the group g
HotkeySelectOn(k, g) ==
    /\ call.arg.cmds[k + 1].Struct = "HotkeyCmd"
    /\ call.arg.cmds[k + 1].f.HotkeyType = HotkeyTypeIDSelect
    /\ call.arg.cmds[k + 1].f.Group = g

\* The command k is a hotkey select command on the group g, at most 8 frames
\* before the command k + 1
TapBefore(k, g) ==
    /\ HotkeySelectOn(k, g)
    /\ call.arg.cmds[k + 2].Frame - call.arg.cmds[k + 1].Frame <= 8

\* C24: a hotkey select command on a group at most 8 frames after a hotkey
\* select command on the same group is no FastReselection as the second tap,
\* and is one as the third tap or a later one, when the command before the
\* two is a hotkey select on the group as well, at most 8 frames before the
\* second; a select add or select remove command is never a FastReselection.
C24_DoubleTap ==
    Returned("CmdIneffKind") /\ call.arg.i >= 1 =>
        /\ \A g \in {1, 2} :
               HotkeySelectOn(call.arg.i, g) /\ TapBefore(call.arg.i - 1, g) =>
                   (call.result[1] = IneffKindFastReselection
                       <=> call.arg.i >= 2 /\ TapBefore(call.arg.i - 2, g))
        /\ call.arg.cmds[call.arg.i + 1].Type \in {TypeIDSelectAdd, TypeIDSelectRemove}
               => call.result[1] # IneffKindFastReselection

\* The third of three taps on the group 1, 8 frames after one another
C24_Witness ==
    /\ Returned("CmdIneffKind")
    /\ call.arg.i = 2
    /\ HotkeySelectOn(2, 1) /\ TapBefore(1, 1) /\ TapBefore(0, 1)
    /\ call.arg.cmds[3].Frame = 116
    /\ call.result[1] = IneffKindFastReselection

---------------------------------------------------------------------------
(* Hotkey commands that assign or add                                      *)

\* The command k (from 0) of the call of CmdIneffKind is a hotkey command
\* that is no select
HotkeyAddAssign(k) ==
    /\ call.arg.cmds[k + 1].Struct = "HotkeyCmd"
    /\ call.arg.cmds[k + 1].f.HotkeyType # HotkeyTypeIDSelect

\* The command i of the call and the one before it are hotkey commands that
\* are no selects, on one group
TwoOnOneGroup ==
    /\ Returned("CmdIneffKind") /\ call.arg.i >= 1
    /\ HotkeyAddAssign(call.arg.i) /\ HotkeyAddAssign(call.arg.i - 1)
    /\ call.arg.cmds[call.arg.i + 1].f.Group = call.arg.cmds[call.arg.i].f.Group

\* C25 as claimed: a hotkey command that is no select, after a hotkey command
\* of the player that is no select on the same group, is a
\* RepetitionHotkeyAddAssign, whichever of assign and add the two are.
C25_AnyAddAssign ==
    TwoOnOneGroup => call.result[1] = IneffKindRepetitionHotkeyAddAssign

\* C25: a hotkey command that is no select, after a hotkey command of the
\* player that is no select on the same group, is a RepetitionHotkeyAddAssign
\* if the two are of the same type (assign and assign, add and add), and is
\* effective if they are not.
C25_SameAddAssign ==
    TwoOnOneGroup =>
        IF call.arg.cmds[call.arg.i + 1].f.HotkeyType = call.arg.cmds[call.arg.i].f.HotkeyType
        THEN call.result[1] = IneffKindRepetitionHotkeyAddAssign
        ELSE call.result[1] = IneffKindEffective

\* An add to the group 2 after an add to it, 9 frames before, and an assign
\* before that
C25_Witness ==
    /\ TwoOnOneGroup
    /\ call.arg.i = 2
    /\ call.arg.cmds[3].f.HotkeyType = 2 /\ call.arg.cmds[3].f.Group = 2
    /\ call.arg.cmds[2].f.HotkeyType = 2
    /\ call.arg.cmds[3].Frame - call.arg.cmds[2].Frame = 9
    /\ HotkeyAddAssign(0) /\ call.arg.cmds[1].f.HotkeyType = 0
    /\ call.result[1] = IneffKindRepetitionHotkeyAddAssign

---------------------------------------------------------------------------
(* The end of a compressed legacy chunk                                    *)

\* What repChunk returns on the compressed chunk src: 0x305 after the end
\* marker, 0x306 when the source is exhausted
ChunkEnd(src) ==
    repChunk([src |-> src, p |-> 3, m14 |-> At(src, 2), m18 |-> 0, m0C |-> At(src, 1),
              out |-> <<>>, eof |-> FALSE]).length

\* Section was called on a section whose chunk is compressed: it does not
\* have the length of the section, and repSection goes as far as repChunk
ChunkDecoded ==
    /\ Returned("legacyDecoder.Section")
    /\ Len(call.arg.chunk) # min(call.arg.size, bufLen)
    /\ Len(call.arg.chunk) > 4

\* C26: the decoding of a legacy chunk ends normally on the end marker 0x305
\* only; when the source is exhausted while more bits are asked for, it
\* reports an error, and Section fails with ErrMismatchedSection and does not
\* return the bytes produced so far.
C26_ExhaustedChunkFails ==
    ChunkDecoded /\ ChunkEnd(call.arg.chunk) # 773 =>
        /\ call.result[1].err = ErrMismatchedSection
        /\ call.result[1].data = <<>>

---------------------------------------------------------------------------
(* The command before a parse error                                        *)

\* A step of the command loop that records a ParseErrCmd
ParseErrRecorded ==
    /\ r.Commands # <<>> /\ r'.Commands # <<>>
    /\ Len(r'.Commands[1].ParseErrCmds) = Len(r.Commands[1].ParseErrCmds) + 1

\* C27: every ParseErrCmd that is recorded holds in PrevCmd a reference to
\* the command parsed before it, the last element of Commands.Cmds when the
\* unknown type ID is met, wherever in the stream that is; the command it
\* refers to and the commands before it stay as they are.
C27_PrevCmdIsLastCmd ==
    [][ParseErrRecorded =>
          LET pec == r'.Commands[1].ParseErrCmds[Len(r'.Commands[1].ParseErrCmds)]
          IN  /\ pec.PrevCmd \in 1..Len(r.Commands[1].Cmds)
              /\ pec.PrevCmd = Len(r.Commands[1].Cmds)
              /\ r'.Commands[1].Cmds = r.Commands[1].Cmds]_vars

---------------------------------------------------------------------------
(* The last command of a player                                            *)

\* The places in Commands.Cmds of the commands of the player pid, and of
\* those whose frame is in the game: 0 <= f <= Header.Frames
CmdsOfPlayer(pid) ==
    {k \in 1..Len(r.Commands[1].Cmds) : r.Commands[1].Cmds[k].PlayerID = pid}

CmdsInGame(pid) ==
    {k \in CmdsOfPlayer(pid) : /\ r.Commands[1].Cmds[k].Frame >= 0
                               /\ r.Commands[1].Cmds[k].Frame <= r.Header[1].Frames}

Effective(K) == {k \in K : r.Commands[1].Cmds[k].IneffKind = IneffKindEffective}

\* The frame of the last command in the game of the player, 0 without one
LastFrameInGame(pid) ==
    IF CmdsInGame(pid) = {} THEN 0 ELSE r.Commands[1].Cmds[Max(CmdsInGame(pid))].Frame

\* Compute is over on a replay with its commands: pd is the description of
\* one of the players
ComputedPlayers ==
    IF pc = "Computed" /\ r.Commands # <<>> /\ r.Computed # <<>>
    THEN {r.Computed[1].PlayerDescs[i] : i \in 1..Len(r.Computed[1].PlayerDescs)}
    ELSE {}

\* C28 as claimed: LastCmdFrame is the frame of the last command of the
\* player with 0 <= f <= Header.Frames, 0 if there is none, and a command
\* after Header.Frames counts neither for LastCmdFrame nor for APM and EAPM.
C28_CmdsInGameOnly ==
    \A pd \in ComputedPlayers :
        /\ pd.LastCmdFrame = LastFrameInGame(pd.PlayerID)
        /\ pd.LastCmdFrame # 0 =>
               /\ pd.APM = apmOf(Cardinality(CmdsInGame(pd.PlayerID)), pd.LastCmdFrame)
               /\ pd.EAPM = apmOf(Cardinality(Effective(CmdsInGame(pd.PlayerID))),
                                  pd.LastCmdFrame)

\* C28: LastCmdFrame is the frame of the last command of the player with
\* 0 <= f <= Header.Frames, 0 if there is none; APM and EAPM are the numbers
\* of all commands and of all effective commands of the player, those after
\* Header.Frames too, by the minutes of LastCmdFrame.
C28_LastFrameInGame ==
    \A pd \in ComputedPlayers :
        /\ pd.LastCmdFrame = LastFrameInGame(pd.PlayerID)
        /\ pd.LastCmdFrame # 0 =>
               /\ pd.APM = apmOf(Cardinality(CmdsOfPlayer(pd.PlayerID)), pd.LastCmdFrame)
               /\ pd.EAPM = apmOf(Cardinality(Effective(CmdsOfPlayer(pd.PlayerID))),
                                  pd.LastCmdFrame)

\* A player whose last command is after Header.Frames and who has one in the
\* game before it
C28_Witness ==
    \E pd \in ComputedPlayers :
        /\ CmdsInGame(pd.PlayerID) # {}
        /\ r.Commands[1].Cmds[Max(CmdsOfPlayer(pd.PlayerID))].Frame > r.Header[1].Frames
        /\ pd.LastCmdFrame = LastFrameInGame(pd.PlayerID)
        /\ pd.LastCmdFrame > 0
        /\ pd.APM = apmOf(Cardinality(CmdsOfPlayer(pd.PlayerID)), pd.LastCmdFrame)

---------------------------------------------------------------------------
(* Alliances of more than two players                                      *)

\* The players in the slots x and y of the header are no computers, and the
\* alliance command of each that is in force after 90 seconds holds the slot
\* of the other
AlliedHumans(rep, x, y) ==
    /\ rep.Header[1].Slots[x].Type # PlayerTypeComputer
    /\ rep.Header[1].Slots[y].Type # PlayerTypeComputer
    /\ rep.Header[1].Slots[y].SlotID
           \in AlliedSlots(rep.Commands[1].Cmds, rep.Header[1].Slots[x].ID)
    /\ rep.Header[1].Slots[x].SlotID
           \in AlliedSlots(rep.Commands[1].Cmds, rep.Header[1].Slots[y].ID)

\* The detection of the teams of the melee game succeeds: the players that
\* are no observers have one team in the header, and whoever of them allies
\* with another of them is allied with by that one
AlliancesSymmetric ==
    /\ OneTeamParsed
    /\ \A x, y \in Elems(r.Header[1].Players) :
           /\ x # y /\ NoObserver(r', {x, y})
           /\ r.Header[1].Slots[y].SlotID
                  \in AlliedSlots(r.Commands[1].Cmds, r.Header[1].Slots[x].ID)
           => r.Header[1].Slots[x].SlotID
                  \in AlliedSlots(r.Commands[1].Cmds, r.Header[1].Slots[y].ID)

\* C29: when the detection of the teams of a melee game succeeds, two players
\* that are neither observers nor computers and whose alliances hold each
\* other's slot have the same Team, in whatever order the players are.
C29_AlliesShareTeam ==
    [][ComputeOfMelee /\ AlliancesSymmetric =>
           \A x, y \in Elems(r.Header[1].Players) :
               x # y /\ AlliedHumans(r, x, y) /\ NoObserver(r', {x, y})
                   => r'.Header[1].Slots[x].Team = r'.Header[1].Slots[y].Team]_vars

=========================================================================
